---- MODULE Spec2Model ----
(***************************************************************************)
(* A model of omni-svelte: the composed request handler, the Active-Record *)
(* Model's save life cycle, the QueryBuilder's condition building and      *)
(* chunking, the RelationshipLoader's eager loading, the database          *)
(* connection and the MigrationRunner, the migrations build-tool plugin,   *)
(* the auth schema generator, the auth schema synchronization, the         *)
(* deepEqual and parsePagination helpers, the schema file watcher and the  *)
(* auth CLI command runner.                                                *)
(*                                                                         *)
(* Each subsystem has its own variables and its own specification          *)
(* (SpecHandler, SpecModel, SpecQuery, SpecLoader, SpecDatabase,           *)
(* SpecPlugin, SpecGenerator, SpecChunk, SpecSync, SpecFiles,              *)
(* SpecDeepEqual, SpecPagination, SpecWatcher, SpecCommand); a             *)
(* specification leaves the other subsystems' variables unchanged.         *)
(***************************************************************************)
EXTENDS Integers, Sequences, FiniteSets, TLC

VARIABLES
    \* ---- createFrameworkHandler (src/unnamed/part_008) ----
    hooks,          \* the configured hook list
    userHandle,     \* TRUE when the application exports its own handle
    currentResolve, \* the chain built by one invocation, outermost link first
    depth,          \* how many links of the chain are currently entered
    phase,          \* "idle" | "in" | "out" | "done"
    trace,          \* the pre/post logic executed so far, in order
    \* ---- Model (src/src/package/database/relationships.ts:356-816) ----
    timestamps,     \* static timestamps of the model class
    fillable,       \* static fillable of the model class (empty: every key)
    hashHook,       \* TRUE when the password field is declared with `hash`
    slugHook,       \* TRUE when the schema declares a field of type `slug`
    attributes,     \* this.attributes
    original,       \* this.original
    exists,         \* this.exists
    isDirty,        \* this.isDirty
    pc,             \* where the instance's save() is
    payload,        \* insertData / updateData of the save() in flight
    dbRow,          \* the row stored for this instance's primary key
    writes,         \* the INSERT and UPDATE statements issued, in order
    hookLog,        \* the runHooks(event) calls made, in order
    result,         \* how the last save() ended
    saves,          \* save() calls so far
    clock,          \* Date objects created so far
    \* ---- QueryBuilder (src/src/package/database/query-builder.ts) ----
    wheres,         \* the conditions handed to the drizzle query's where()
    whereIsCollector, \* TRUE while this.where is whereAny's collecting function
    calls,          \* the where / whereAny calls made on the builder, in order
    \* ---- RelationshipLoader (src/src/package/database/relationships.ts:12-194) ----
    owners,         \* the owning table: the foreign key of each row, by id
    related,        \* the related table: the foreign key of each row, by id
    pivot,          \* the pivot table: <<owning id, related id>> pairs
    requested,      \* the relation names given to with()
    terminal,       \* the terminal method that ran: "none" | "get" | "first"
    got,            \* the instances it returned
    failed,         \* TRUE when it threw
    loadQueries,    \* the queries each loaded relation took, in order
    \* ---- database connection (src/src/package/database/relationships.ts:195-250) ----
    envUrl,            \* env.DATABASE_URL
    database,          \* the exported, process-wide handle
    configures,        \* configureDatabase calls so far
    dbCall,            \* the last configureDatabase / getDatabase call and how it ended
    \* ---- MigrationRunner (src/src/package/database/relationships.ts:288-347) ----
    migrationFiles,    \* how many migrations the runner's environment lists
    ledger,            \* the names recorded in the migrations table, in order
    ledgerAtStart,     \* the ledger when the runMigrations() in hand began
    pendingMigrations, \* pendingMigrations of the runMigrations() in hand
    cursor,            \* the position of its loop in pendingMigrations
    upInvoked,         \* the migrations whose up() it has invoked
    upFailedAt,        \* the position whose up() failed, 0 when none did
    runnerPc,          \* where runMigrations() is: idle, up, record, done or threw
    runnerError,       \* what it threw to its caller
    runs,              \* runMigrations() calls so far
    \* ---- migrations plugin (src/src/package/vite/migrations.ts) ----
    autoMigrate,       \* omniConfig.auth.migrations.autoMigrate
    strategySetting,   \* omniConfig.auth.migrations.strategy
    processDbUrl,      \* TRUE when process.env.DATABASE_URL is set
    authSchemaFile,    \* .omni/auth-schema.ts: the tables it exports
    snapshotFile,      \* .omni/auth-snapshot.json
    plugins,           \* the plugin objects made: configResolved, hasRun
    buildStarts,       \* the buildStart invocations, in order
    \* ---- generateAuthSchema (src/unnamed/part_009:526-698) ----
    authConfig,        \* the default export of auth/__generated__/config.js
    metadataFile,      \* .omni/auth-schema.meta.json
    generatedSchema,   \* .omni/auth-schema.ts as the generator writes it
    genCall,           \* the last generateAuthSchema call and how it ended
    generations,       \* generateAuthSchema calls so far
    \* ---- QueryBuilder.chunk (src/src/package/database/query-builder.ts:447-462) ----
    resultRows,        \* how many rows the builder's query matches
    chunkSize,         \* the size argument
    chunkPage,         \* page
    chunkPc,           \* where chunk() is: idle, fetch, callback, done or threw
    fetched,           \* the pages fetched, in order
    batches,           \* the batches given to callback, in order
    \* ---- AuthSchemaSync (src/src/package/vite/index.ts:413-961) ----
    existingSchemas,   \* the application's Schema[] handed to sync(), merged in place
    userSchemaFile,    \* the developer's user schema file: its defineSchema blocks
    authOmniFile,      \* .omni/auth.schema.ts
    syncStrategy,      \* options.syncStrategy
    syncAutoMigrate,   \* FALSE when options.autoMigrate is false
    lastPass,          \* the last sync() call: what it found, did and returned
    unchangedSince,    \* whether anything changed since the last pass
    passes,            \* sync() calls so far
    mutation,          \* the last file mutation applied on its own, before and after
    mutations,         \* file mutations applied on their own so far
    \* ---- deepEqual (src/src/package/utils/index.ts:10-57) ----
    heap,              \* the objects the arguments reach, by reference
    argA,              \* the first argument of deepEqual
    argB,              \* the second argument of deepEqual
    equalCall,         \* whether deepEqual was called, and what it returned
    \* ---- parsePagination (src/src/package/helpers.ts:16-20) ----
    pageParam,         \* url.searchParams.get('page')
    limitParam,        \* url.searchParams.get('limit')
    pagination,        \* whether parsePagination was called, and what it returned
    \* ---- schema file watcher (src/unnamed/part_007) ----
    diskFiles,         \* each schema file on disk: 0 when absent, else the version of its content
    outputFormat,      \* config.output.drizzle.format
    schemasRef,        \* schemasRef.current: which array it is, and its items
    generatedFiles,    \* the generated drizzle files, by path
    handlers,          \* the handlers of the watcher events, in the order they were called
    \* ---- runCommand (src/src/package/runtime/auth/auth-sync.ts:110-139) ----
    commandPc,         \* idle, started (the timer is set), or timer ran
    child,             \* the child process: none, running, spawn failed, never started, killed or closed
    childOutputs,      \* `data` events of the child so far
    commandPromise,    \* the promise runCommand returned
    elapsed,           \* seconds since the child was spawned
    killSignals,       \* how many times child.kill() sent its signal
    childAtTimeout     \* what the child was when the timer callback ran

hvars == <<hooks, userHandle, currentResolve, depth, phase, trace>>

mvars == <<timestamps, fillable, hashHook, slugHook, attributes, original, exists, isDirty,
           pc, payload, dbRow, writes, hookLog, result, saves, clock>>

qvars == <<wheres, whereIsCollector, calls>>

lvars == <<owners, related, pivot, requested, terminal, got, failed, loadQueries>>

dvars == <<envUrl, database, configures, dbCall>>

rvars == <<migrationFiles, ledger, ledgerAtStart, pendingMigrations, cursor,
           upInvoked, upFailedAt, runnerPc, runnerError, runs>>

pvars == <<autoMigrate, strategySetting, processDbUrl, authSchemaFile,
           snapshotFile, plugins, buildStarts>>

gvars == <<authConfig, metadataFile, generatedSchema, genCall, generations>>

cvars == <<resultRows, chunkSize, chunkPage, chunkPc, fetched, batches>>

svars == <<existingSchemas, userSchemaFile, authOmniFile, syncStrategy,
           syncAutoMigrate, lastPass, unchangedSince, passes, mutation,
           mutations>>

evars == <<heap, argA, argB, equalCall>>

nvars == <<pageParam, limitParam, pagination>>

wvars == <<diskFiles, outputFormat, schemasRef, generatedFiles, handlers>>

xvars == <<commandPc, child, childOutputs, commandPromise, elapsed,
           killSignals, childAtTimeout>>

vars == <<hvars, mvars, qvars, lvars, dvars, rvars, pvars, gvars, cvars, svars,
          evars, nvars, wvars, xvars>>

\* What each subsystem's actions leave alone.
notHandler == <<mvars, qvars, lvars, dvars, rvars, pvars, gvars, cvars, svars,
                evars, nvars, wvars, xvars>>
notModel == <<hvars, qvars, lvars, dvars, rvars, pvars, gvars, cvars, svars,
              evars, nvars, wvars, xvars>>
notQuery == <<hvars, mvars, lvars, dvars, rvars, pvars, gvars, cvars, svars,
              evars, nvars, wvars, xvars>>
notLoader == <<hvars, mvars, qvars, dvars, rvars, pvars, gvars, cvars, svars,
               evars, nvars, wvars, xvars>>
notDatabase == <<hvars, mvars, qvars, lvars, rvars, pvars, gvars, cvars, svars,
                 evars, nvars, wvars, xvars>>
notRunner == <<hvars, mvars, qvars, lvars, dvars, pvars, gvars, cvars, svars,
               evars, nvars, wvars, xvars>>
notPlugin == <<hvars, mvars, qvars, lvars, dvars, rvars, gvars, cvars, svars,
               evars, nvars, wvars, xvars>>
notGenerator == <<hvars, mvars, qvars, lvars, dvars, rvars, pvars, cvars,
                  svars, evars, nvars, wvars, xvars>>
notChunk == <<hvars, mvars, qvars, lvars, dvars, rvars, pvars, gvars, svars,
              evars, nvars, wvars, xvars>>
notSync == <<hvars, mvars, qvars, lvars, dvars, rvars, pvars, gvars, cvars,
             evars, nvars, wvars, xvars>>
notDeepEqual == <<hvars, mvars, qvars, lvars, dvars, rvars, pvars, gvars,
                  cvars, svars, nvars, wvars, xvars>>
notPagination == <<hvars, mvars, qvars, lvars, dvars, rvars, pvars, gvars,
                   cvars, svars, evars, wvars, xvars>>
notWatcher == <<hvars, mvars, qvars, lvars, dvars, rvars, pvars, gvars, cvars,
                svars, evars, nvars, xvars>>
notCommand == <<hvars, mvars, qvars, lvars, dvars, rvars, pvars, gvars, cvars,
                svars, evars, nvars, wvars>>
notGeneratorSync == <<hvars, mvars, qvars, lvars, dvars, rvars, pvars, cvars,
                      evars, nvars, wvars, xvars>>

(***************************************************************************)
(* createFrameworkHandler                                                  *)
(***************************************************************************)

\* The names a hook list is drawn from, and the longest list explored.
HookNames == {"H1", "H2"}
MaxHooks == 3

HookLists == UNION {[1..n -> HookNames] : n \in 0..MaxHooks}

\* A link of the chain: a framework hook (with its place in the list), the
\* user's handle, or SvelteKit's own resolve.
HookLink(i, name) == [kind |-> "hook", idx |-> i, name |-> name]
UserLink == [kind |-> "user", idx |-> 0, name |-> "U"]
ResolveLink == [kind |-> "resolve", idx |-> 0, name |-> "resolve"]

\* The loop `for (let i = hooks.length - 1; i >= 0; i--)`: the hook at i wraps
\* what is built so far, so the last wrapped (i = 0) is the outermost.
RECURSIVE WrapHooksForward(_, _, _)
WrapHooksForward(hs, i, inner) ==
    IF i > Len(hs) THEN inner
    ELSE WrapHooksForward(hs, i + 1, <<HookLink(i, hs[i])>> \o inner)

RECURSIVE WrapHooks(_, _, _)
WrapHooks(hs, i, inner) ==
    IF i < 1 THEN inner
    ELSE WrapHooks(hs, i - 1, <<HookLink(i, hs[i])>> \o inner)

\* currentResolve after the user handle (if any) has been made the last link.
WithUserHandle(user, inner) ==
    IF user THEN <<UserLink>> \o inner ELSE inner

\* The chain the returned handle builds on each request.
ComposeChainForward(hs, user) ==
    WrapHooksForward(hs, 1, WithUserHandle(user, <<ResolveLink>>))

ComposeChain(hs, user) ==
    WrapHooks(hs, Len(hs), WithUserHandle(user, <<ResolveLink>>))

Pre(link) == [at |-> "pre", kind |-> link.kind, idx |-> link.idx, name |-> link.name]
Post(link) == [at |-> "post", kind |-> link.kind, idx |-> link.idx, name |-> link.name]

InitHandlerVars ==
    /\ hooks \in HookLists
    /\ userHandle \in BOOLEAN
    /\ currentResolve = <<>>
    /\ depth = 0
    /\ phase = "idle"
    /\ trace = <<>>

\* handle({event, resolve}): builds the chain and calls currentResolve(event).
Handle ==
    /\ phase = "idle"
    /\ currentResolve' = ComposeChain(hooks, userHandle)
    /\ phase' = "in"
    /\ depth' = 0
    /\ trace' = <<>>
    /\ UNCHANGED <<hooks, userHandle>>
    /\ UNCHANGED notHandler

\* The link at depth + 1 is called: a hook or the user handle runs its
\* pre-resolve logic and then calls its resolve; SvelteKit's resolve renders
\* the response and returns.
EnterLink ==
    /\ phase = "in"
    /\ depth < Len(currentResolve)
    /\ LET link == currentResolve[depth + 1] IN
         /\ trace' = Append(trace, Pre(link))
         /\ IF link.kind = "resolve"
              THEN /\ phase' = "out"
                   /\ depth' = depth
              ELSE /\ phase' = "in"
                   /\ depth' = depth + 1
    /\ UNCHANGED <<hooks, userHandle, currentResolve>>
    /\ UNCHANGED notHandler

\* The innermost entered link gets its response back, runs its post-resolve
\* logic and returns to its caller.
LeaveLink ==
    /\ phase = "out"
    /\ depth > 0
    /\ trace' = Append(trace, Post(currentResolve[depth]))
    /\ depth' = depth - 1
    /\ UNCHANGED <<hooks, userHandle, currentResolve, phase>>
    /\ UNCHANGED notHandler

\* The outermost link has returned: the response goes back to SvelteKit.
Respond ==
    /\ phase = "out"
    /\ depth = 0
    /\ phase' = "done"
    /\ UNCHANGED <<hooks, userHandle, currentResolve, depth, trace>>
    /\ UNCHANGED notHandler

NextHandler ==
    \/ Handle
    \/ EnterLink
    \/ LeaveLink
    \/ Respond

\* The handler's variables while another subsystem is explored.
IdleHandlerVars ==
    /\ hooks = <<>>
    /\ userHandle = FALSE
    /\ currentResolve = <<>>
    /\ depth = 0
    /\ phase = "idle"
    /\ trace = <<>>

(***************************************************************************)
(* Model: attributes, dirty tracking and save()                            *)
(***************************************************************************)

\* save() calls explored on one instance.
MaxSaves == 3

\* The columns of the users table (src/src/lib/server/db/schema.ts:3-11;
\* email behaves as name does and is left out).
Keys == {"id", "name", "slug", "password", "active", "created_at", "updated_at"}

\* Attribute values. A Date is an object: `!==` compares two Dates by
\* identity, so a Date is named by the order of its creation. A string
\* carries how many times hashPassword has been applied to it.
Undefined == [tag |-> "undefined", s |-> "", n |-> 0]
Str(s) == [tag |-> "string", s |-> s, n |-> 0]
Bool(b) == [tag |-> "boolean", s |-> IF b THEN "true" ELSE "false", n |-> 0]
Num(k) == [tag |-> "number", s |-> "", n |-> k]
DateRef(k) == [tag |-> "date", s |-> "", n |-> k]

hashPassword(v) == [tag |-> "string", s |-> v.s, n |-> v.n + 1]

\* String(value).length; a bcrypt hash is 60 characters long.
Length(v) ==
    IF v.n > 0 THEN 60
    ELSE CASE v.s = "" -> 0
           [] v.s = "A" -> 1
           [] v.s = "B" -> 1
           [] v.s = "a" -> 1
           [] v.s = "b" -> 1
           [] v.s = "pw" -> 2
           [] v.s = "yes" -> 3
           [] v.s = "secret1" -> 7
           [] OTHER -> 5

\* JavaScript truthiness, as in `if (model[fieldName])`.
Truthy(v) ==
    /\ v # Undefined
    /\ v # Bool(FALSE)
    /\ ~(v.tag = "string" /\ Length(v) = 0)
    /\ ~(v.tag = "number" /\ v.n = 0)

\* A record without any key.
NoRow == [k \in Keys |-> Undefined]

\* static casts of the model class.
Casts == [active |-> "boolean", created_at |-> "date", updated_at |-> "date"]

\* Model.castAttribute. Every date the model is given is a Date object
\* already, which the cast returns as it is.
castAttribute(key, value) ==
    IF value = Undefined THEN value
    ELSE IF key \notin DOMAIN Casts THEN value
    ELSE IF Casts[key] = "boolean"
        THEN IF value.tag = "string"
                THEN Bool(value.s \in {"true", "1", "yes", "on"})
                ELSE Bool(Truthy(value))
    ELSE IF value.tag = "date" THEN value ELSE DateRef(value.n)

\* Model.setAttribute, on the attributes.
setAttribute(attrs, key, value) ==
    [attrs EXCEPT ![key] = castAttribute(key, value)]

\* Model.isFillable.
isFillable(key) == fillable = {} \/ key \in fillable

\* Model.fill: every fillable key of data is set through setAttribute.
fill(attrs, data) ==
    [k \in Keys |->
        IF data[k] # Undefined /\ isFillable(k)
            THEN castAttribute(k, data[k])
            ELSE attrs[k]]

\* Model.syncOriginal: the snapshot is a shallow copy of the attributes.
syncOriginalStale(attrs) == original

syncOriginal(attrs) == attrs

\* Model.updateTimestamps, with `now` the Date it creates.
updateTimestamps(attrs, now) ==
    LET a == IF exists THEN attrs ELSE setAttribute(attrs, "created_at", now)
    IN setAttribute(a, "updated_at", now)

\* Model.getAttributesForInsert, with `now` the Date it creates.
getAttributesForInsert(attrs, now) ==
    IF timestamps
        THEN [attrs EXCEPT !["created_at"] = now, !["updated_at"] = now]
        ELSE attrs

\* Model.getDirtyAttributes, with `now` the Date it creates.
getDirtyAttributes(attrs, now) ==
    LET dirty == [k \in Keys |-> IF original[k] # attrs[k] THEN attrs[k] ELSE Undefined]
    IN IF timestamps /\ dirty # NoRow
          THEN [dirty EXCEPT !["updated_at"] = now]
          ELSE dirty

\* validation.create.safeParse(data).success
\* (src/src/lib/users.model.ts:36-41).
ValidateCreateLate(data) == TRUE

ValidateCreate(data) ==
    /\ data["name"].tag = "string" /\ Length(data["name"]) >= 1
    /\ data["password"].tag = "string" /\ Length(data["password"]) >= 6
    /\ data["active"] = Undefined \/ data["active"].tag = "boolean"

\* validation.update.safeParse(data).success: every field is optional
\* (src/src/lib/users.model.ts:42-47).
ValidateUpdate(data) ==
    /\ data["name"] = Undefined
         \/ (data["name"].tag = "string" /\ Length(data["name"]) >= 1)
    /\ data["password"] = Undefined
         \/ (data["password"].tag = "string" /\ Length(data["password"]) >= 6)
    /\ data["active"] = Undefined \/ data["active"].tag = "boolean"

\* generateSlug(text): lower case, punctuation removed, blanks to dashes.
generateSlug(v) ==
    Str(CASE v.s = "A" -> "a"
          [] v.s = "B" -> "b"
          [] OTHER -> v.s)

\* The generated `creating` hook of a password field: hashes the password
\* when there is one.
creatingPasswordHook(attrs) ==
    IF hashHook /\ Truthy(attrs["password"])
        THEN setAttribute(attrs, "password", hashPassword(attrs["password"]))
        ELSE attrs

\* The generated `creating` hook of a slug field: derives the slug from the
\* name when the model has no slug.
creatingSlugHook(attrs) ==
    IF slugHook /\ ~Truthy(attrs["slug"]) /\ Truthy(attrs["name"])
        THEN setAttribute(attrs, "slug", generateSlug(attrs["name"]))
        ELSE attrs

\* The `creating` hooks, in the order generateHooks pushed them.
creatingHooks(attrs) == creatingSlugHook(creatingPasswordHook(attrs))

\* The generated `updating` hook: hashes the password whenever the model is
\* dirty at all.
updatingHooks(attrs, dirtyFlag) ==
    IF hashHook /\ Truthy(attrs["password"]) /\ dirtyFlag
        THEN setAttribute(attrs, "password", hashPassword(attrs["password"]))
        ELSE attrs

\* The row INSERT ... RETURNING gives back: the values sent, the serial id
\* and the column defaults; the driver builds new Date objects d1 and d2.
InsertedRow(data, d1, d2) ==
    [k \in Keys |->
        CASE k = "id" -> IF data[k] # Undefined THEN data[k] ELSE Num(1)
          [] k = "active" -> IF data[k] # Undefined THEN data[k] ELSE Bool(TRUE)
          [] k = "created_at" -> d1
          [] k = "updated_at" -> d2
          [] OTHER -> data[k]]

\* The stored row after UPDATE ... SET data WHERE id = key.
UpdatedRow(row, data, key) ==
    IF row # NoRow /\ row["id"] = key
        THEN [k \in Keys |-> IF data[k] # Undefined THEN data[k] ELSE row[k]]
        ELSE row

\* What the application may assign to an attribute.
SetInputs ==
    {<<"name", Str("A")>>, <<"name", Str("B")>>, <<"name", Str("")>>,
     <<"password", Str("secret1")>>, <<"password", Str("pw")>>,
     <<"active", Str("yes")>>}

\* A row loaded by a query.
LoadedRow ==
    [k \in Keys |->
        CASE k = "id" -> Num(1)
          [] k = "name" -> Str("A")
          [] k = "slug" -> Str("a")
          [] k = "password" -> Str("secret1")
          [] k = "active" -> Bool(TRUE)
          [] OTHER -> DateRef(0)]

\* The instance is either new (constructor: fill, then syncOriginal) or
\* loaded from a row (fromAttributes).
InitModelVars ==
    /\ timestamps \in BOOLEAN
    /\ fillable \in {{}, {"name", "password", "active"}}
    /\ hashHook \in BOOLEAN
    /\ slugHook \in BOOLEAN
    /\ \/ /\ exists = FALSE
          /\ dbRow = NoRow
          /\ \E n \in {Str("A"), Str("")} :
                attributes = fill(NoRow, [NoRow EXCEPT !["name"] = n,
                                                       !["password"] = Str("secret1")])
       \/ /\ exists = TRUE
          /\ dbRow = LoadedRow
          /\ attributes = LoadedRow
    /\ original = attributes
    /\ isDirty = FALSE
    /\ pc = "idle"
    /\ payload = NoRow
    /\ writes = <<>>
    /\ hookLog = <<>>
    /\ result = "none"
    /\ saves = 0
    /\ clock = 0

\* The model's variables while another subsystem is explored.
IdleModelVars ==
    /\ timestamps = TRUE
    /\ fillable = {}
    /\ hashHook = FALSE
    /\ slugHook = FALSE
    /\ exists = FALSE
    /\ dbRow = NoRow
    /\ attributes = NoRow
    /\ original = NoRow
    /\ isDirty = FALSE
    /\ pc = "idle"
    /\ payload = NoRow
    /\ writes = <<>>
    /\ hookLog = <<>>
    /\ result = "none"
    /\ saves = 0
    /\ clock = 0

config == <<timestamps, fillable, hashHook, slugHook>>

\* model.setAttribute(key, value), called by the application between saves.
SetAttribute ==
    /\ pc = "idle"
    /\ \E in \in SetInputs :
          attributes' = setAttribute(attributes, in[1], in[2])
    /\ isDirty' = TRUE
    /\ UNCHANGED <<config, original, exists, pc, payload, dbRow, writes, hookLog,
                   result, saves, clock>>
    /\ UNCHANGED notModel

\* save() on an instance that does not exist, up to its first await:
\* updateTimestamps, then performInsert's payload and validation.
SaveInsert ==
    /\ pc = "idle"
    /\ ~exists
    /\ saves < MaxSaves
    /\ LET stamped == IF timestamps
                         THEN updateTimestamps(attributes, DateRef(clock + 1))
                         ELSE attributes
           insertData == getAttributesForInsert(stamped, DateRef(clock + 2))
       IN /\ attributes' = stamped
          /\ isDirty' = (isDirty \/ timestamps)
          /\ IF ValidateCreate(insertData)
                THEN /\ pc' = "creating"
                     /\ payload' = insertData
                     /\ result' = "pending"
                ELSE /\ pc' = "idle"
                     /\ payload' = NoRow
                     /\ result' = "validation_error"
    /\ saves' = saves + 1
    /\ clock' = clock + 2
    /\ UNCHANGED <<config, original, exists, dbRow, writes, hookLog>>
    /\ UNCHANGED notModel

\* await constructor.runHooks('creating', this)
RunCreatingHooks ==
    /\ pc = "creating"
    /\ attributes' = creatingHooks(attributes)
    /\ isDirty' = (isDirty \/ attributes' # attributes)
    /\ hookLog' = Append(hookLog, "creating")
    /\ pc' = "inserting"
    /\ UNCHANGED <<config, original, exists, payload, dbRow, writes, result, saves, clock>>
    /\ UNCHANGED notModel

\* The INSERT succeeds: the returned row is filled in, the id is set, and the
\* instance is marked as existing and synchronized.
DbInsert ==
    /\ pc = "inserting"
    /\ LET row == InsertedRow(payload, DateRef(clock + 1), DateRef(clock + 2))
           filled == setAttribute(fill(attributes, row), "id", row["id"])
       IN /\ dbRow' = row
          /\ writes' = Append(writes, [op |-> "insert", data |-> payload])
          /\ attributes' = filled
          /\ original' = syncOriginal(filled)
    /\ exists' = TRUE
    /\ isDirty' = FALSE
    /\ clock' = clock + 2
    /\ pc' = "created"
    /\ UNCHANGED <<config, payload, hookLog, result, saves>>
    /\ UNCHANGED notModel

\* The INSERT is rejected by the database: save() rejects.
DbInsertFail ==
    /\ pc = "inserting"
    /\ pc' = "idle"
    /\ result' = "db_error"
    /\ payload' = NoRow
    /\ UNCHANGED <<config, attributes, original, exists, isDirty, dbRow, writes,
                   hookLog, saves, clock>>
    /\ UNCHANGED notModel

\* await constructor.runHooks('created', this), the broadcast, return this.
RunCreatedHooks ==
    /\ pc = "created"
    /\ hookLog' = Append(hookLog, "created")
    /\ pc' = "idle"
    /\ result' = "saved"
    /\ payload' = NoRow
    /\ UNCHANGED <<config, attributes, original, exists, isDirty, dbRow, writes,
                   saves, clock>>
    /\ UNCHANGED notModel

\* save() on an existing instance, up to its first await: updateTimestamps,
\* then performUpdate's dirty set, its short-circuit and its validation.
SaveUpdate ==
    /\ pc = "idle"
    /\ exists
    /\ saves < MaxSaves
    /\ LET stamped == IF timestamps
                         THEN updateTimestamps(attributes, DateRef(clock + 1))
                         ELSE attributes
           updateData == getDirtyAttributes(stamped, DateRef(clock + 2))
       IN /\ attributes' = stamped
          /\ isDirty' = (isDirty \/ timestamps)
          /\ IF updateData = NoRow
                THEN /\ pc' = "idle"
                     /\ payload' = NoRow
                     /\ result' = "unchanged"
                ELSE IF ValidateUpdate(updateData)
                THEN /\ pc' = "updating"
                     /\ payload' = updateData
                     /\ result' = "pending"
                ELSE /\ pc' = "idle"
                     /\ payload' = NoRow
                     /\ result' = "validation_error"
    /\ saves' = saves + 1
    /\ clock' = clock + 2
    /\ UNCHANGED <<config, original, exists, dbRow, writes, hookLog>>
    /\ UNCHANGED notModel

\* await constructor.runHooks('updating', this)
RunUpdatingHooks ==
    /\ pc = "updating"
    /\ attributes' = updatingHooks(attributes, isDirty)
    /\ hookLog' = Append(hookLog, "updating")
    /\ pc' = "writing"
    /\ UNCHANGED <<config, original, exists, isDirty, payload, dbRow, writes, result,
                   saves, clock>>
    /\ UNCHANGED notModel

\* The UPDATE succeeds: the instance is synchronized.
DbUpdate ==
    /\ pc = "writing"
    /\ dbRow' = UpdatedRow(dbRow, payload, attributes["id"])
    /\ writes' = Append(writes, [op |-> "update", data |-> payload])
    /\ isDirty' = FALSE
    /\ original' = syncOriginal(attributes)
    /\ pc' = "updated"
    /\ UNCHANGED <<config, attributes, exists, payload, hookLog, result, saves, clock>>
    /\ UNCHANGED notModel

\* The UPDATE is rejected by the database: save() rejects.
DbUpdateFail ==
    /\ pc = "writing"
    /\ pc' = "idle"
    /\ result' = "db_error"
    /\ payload' = NoRow
    /\ UNCHANGED <<config, attributes, original, exists, isDirty, dbRow, writes,
                   hookLog, saves, clock>>
    /\ UNCHANGED notModel

\* await constructor.runHooks('updated', this), the broadcast, return this.
RunUpdatedHooks ==
    /\ pc = "updated"
    /\ hookLog' = Append(hookLog, "updated")
    /\ pc' = "idle"
    /\ result' = "saved"
    /\ payload' = NoRow
    /\ UNCHANGED <<config, attributes, original, exists, isDirty, dbRow, writes,
                   saves, clock>>
    /\ UNCHANGED notModel

NextModel ==
    \/ SetAttribute
    \/ SaveInsert
    \/ RunCreatingHooks
    \/ DbInsert
    \/ DbInsertFail
    \/ RunCreatedHooks
    \/ SaveUpdate
    \/ RunUpdatingHooks
    \/ DbUpdate
    \/ DbUpdateFail
    \/ RunUpdatedHooks

(***************************************************************************)
(* QueryBuilder: where and whereAny                                        *)
(***************************************************************************)

\* Calls explored on one builder, and conditions in one whereAny predicate.
MaxCalls == 2
MaxConds == 2

Cols == {"status", "age"}
Ops == {"=", ">"}

\* An argument that was not passed.
NoArg == "undefined"

\* The value a test compares a column with.
SampleValue(col) == IF col = "status" THEN "active" ELSE "18"

\* QueryBuilder.buildCondition: the drizzle operator applied to the column.
buildCondition(column, operator, value) ==
    [fn |-> CASE operator \in {"=", "=="} -> "eq"
              [] operator \in {"!=", "<>"} -> "ne"
              [] operator = ">" -> "gt"
              [] operator = ">=" -> "gte"
              [] operator = "<" -> "lt"
              [] operator = "<=" -> "lte"
              [] operator = "like" -> "like"
              [] operator = "ilike" -> "ilike"
              [] OTHER -> "eq",
     column |-> column,
     value |-> value]

\* or(...conditions)
orGroup(conds) == [fn |-> "or", args |-> conds]

\* A call where(column, a2?, a3?) with argc arguments.
Call2(column, value) == [column |-> column, argc |-> 2, a2 |-> value, a3 |-> NoArg]
Call3(column, operator, value) ==
    [column |-> column, argc |-> 3, a2 |-> operator, a3 |-> value]

WhereCalls ==
    {Call2(c, SampleValue(c)) : c \in Cols}
    \cup {Call3(c, op, SampleValue(c)) : c \in Cols, op \in Ops}

\* QueryBuilder.where: the condition it builds from its arguments.
whereCondition(call) ==
    IF call.argc = 2
        THEN buildCondition(call.column, "=", call.a2)
        ELSE buildCondition(call.column, call.a2, call.a3)

\* Model.where(column, operator?, value?): passes its three parameters on.
modelWhere(call) == [call EXCEPT !.argc = 3]

\* The arguments whereAny is called with: `arguments` inside the arrow
\* function that replaces where is whereAny's own arguments object.
whereAnyArgc == 1

\* The where that whereAny(callback) installs while the callback runs.
collectCondition(call) ==
    IF whereAnyArgc = 2
        THEN buildCondition(call.column, "=", call.a2)
        ELSE buildCondition(call.column, call.a2, call.a3)

\* A logical predicate: a list of conditions, each (column, value) or
\* (column, operator, value).
LogicalConds ==
    {[column |-> c, operator |-> op, value |-> SampleValue(c)] :
        c \in Cols, op \in Ops \cup {"none"}}

Preds == UNION {[1..n -> LogicalConds] : n \in 1..MaxConds}

\* An object has one entry per key.
DistinctColumns(pred) ==
    \A i, j \in DOMAIN pred : pred[i].column = pred[j].column => i = j

\* The three input shapes of one predicate (the documented examples).
ObjectForm(pred) ==
    [i \in DOMAIN pred |->
        IF pred[i].operator = "none"
            THEN [key |-> pred[i].column, isArray |-> FALSE, items |-> <<pred[i].value>>]
            ELSE [key |-> pred[i].column, isArray |-> TRUE,
                  items |-> <<pred[i].operator, pred[i].value>>]]

ArrayForm(pred) ==
    [i \in DOMAIN pred |->
        IF pred[i].operator = "none"
            THEN <<pred[i].column, pred[i].value>>
            ELSE <<pred[i].column, pred[i].operator, pred[i].value>>]

CallbackForm(pred) ==
    [i \in DOMAIN pred |->
        IF pred[i].operator = "none"
            THEN Call2(pred[i].column, pred[i].value)
            ELSE Call3(pred[i].column, pred[i].operator, pred[i].value)]

\* whereAny, object format: Object.entries(conditions).map(...)
whereAnyObject(entries) ==
    [i \in DOMAIN entries |->
        IF entries[i].isArray
            THEN buildCondition(entries[i].key, entries[i].items[1], entries[i].items[2])
            ELSE buildCondition(entries[i].key, "=", entries[i].items[1])]

\* whereAny, array format: conditions.map(...)
whereAnyArray(tuples) ==
    [i \in DOMAIN tuples |->
        IF Len(tuples[i]) = 2
            THEN buildCondition(tuples[i][1], "=", tuples[i][2])
            ELSE buildCondition(tuples[i][1], tuples[i][2], tuples[i][3])]

\* whereAny, callback format: the callback's where calls are collected.
whereAnyCallback(callsMade) ==
    [i \in DOMAIN callsMade |-> collectCondition(callsMade[i])]

\* A new QueryBuilder.
InitQueryVars ==
    /\ wheres = <<>>
    /\ whereIsCollector = FALSE
    /\ calls = <<>>

IdleQueryVars == InitQueryVars

\* builder.where(...): applies the condition, unless where is still the
\* collecting function a whereAny callback left behind, which only collects.
BuilderWhere ==
    /\ Len(calls) < MaxCalls
    /\ \E call \in WhereCalls :
          IF whereIsCollector
             THEN /\ wheres' = wheres
                  /\ calls' = Append(calls, [method |-> "where", entry |-> "builder",
                                             call |-> call, pred |-> <<>>, form |-> "none",
                                             applied |-> 0])
             ELSE /\ wheres' = Append(wheres, whereCondition(call))
                  /\ calls' = Append(calls, [method |-> "where", entry |-> "builder",
                                             call |-> call, pred |-> <<>>, form |-> "none",
                                             applied |-> Len(wheres) + 1])
    /\ UNCHANGED whereIsCollector
    /\ UNCHANGED notQuery

\* Model.where(...): a new builder (Model.query()), then where on it.
ModelWhere ==
    /\ Len(calls) < MaxCalls
    /\ \E call \in WhereCalls :
          /\ wheres' = <<whereCondition(modelWhere(call))>>
          /\ calls' = <<[method |-> "where", entry |-> "static", call |-> call,
                         pred |-> <<>>, form |-> "none", applied |-> 1]>>
    /\ whereIsCollector' = FALSE
    /\ UNCHANGED notQuery

WhereAnyEntry(form, pred, at) ==
    [method |-> "whereAny", entry |-> "builder", call |-> Call2("status", NoArg),
     pred |-> pred, form |-> form, applied |-> at]

\* builder.whereAny({...})
WhereAnyObject ==
    /\ Len(calls) < MaxCalls
    /\ \E pred \in Preds :
          /\ DistinctColumns(pred)
          /\ wheres' = Append(wheres, orGroup(whereAnyObject(ObjectForm(pred))))
          /\ calls' = Append(calls, WhereAnyEntry("object", pred, Len(wheres) + 1))
    /\ UNCHANGED whereIsCollector
    /\ UNCHANGED notQuery

\* builder.whereAny([...])
WhereAnyArray ==
    /\ Len(calls) < MaxCalls
    /\ \E pred \in Preds :
          /\ wheres' = Append(wheres, orGroup(whereAnyArray(ArrayForm(pred))))
          /\ calls' = Append(calls, WhereAnyEntry("array", pred, Len(wheres) + 1))
    /\ UNCHANGED whereIsCollector
    /\ UNCHANGED notQuery

\* builder.whereAny(q => ...) with a callback that returns: where is replaced,
\* the callback runs, where is set back to what it was bound to before.
WhereAnyCallback ==
    /\ Len(calls) < MaxCalls
    /\ \E pred \in Preds :
          /\ wheres' = Append(wheres, orGroup(whereAnyCallback(CallbackForm(pred))))
          /\ calls' = Append(calls, WhereAnyEntry("callback", pred, Len(wheres) + 1))
    /\ UNCHANGED whereIsCollector
    /\ UNCHANGED notQuery

\* builder.whereAny(q => ...) with a callback that throws: whereAny is left
\* at the throw, after where was replaced and before it is set back.
WhereAnyCallbackThrows ==
    /\ Len(calls) < MaxCalls
    /\ whereIsCollector' = TRUE
    /\ calls' = Append(calls, WhereAnyEntry("callback-throws", <<>>, 0))
    /\ UNCHANGED wheres
    /\ UNCHANGED notQuery

NextQuery ==
    \/ BuilderWhere
    \/ ModelWhere
    \/ WhereAnyObject
    \/ WhereAnyArray
    \/ WhereAnyCallback
    \/ WhereAnyCallbackThrows

(***************************************************************************)
(* RelationshipLoader and the QueryBuilder's terminal methods              *)
(***************************************************************************)

\* Rows of the owning table explored: the N of the N+1 problem.
MaxOwners == 2

\* The primary keys the related table may hold.
RelatedIds == 1..2

\* A key that is not there: undefined, null and 0 are all dropped by
\* filter(Boolean).
NoKey == 0

OwnerIds == 1..MaxOwners

\* The relationship map of the owning class. `tags` is declared with the
\* static helper Model.belongsToMany, which gives type 'belongsToMany'.
Relationships ==
    [posts |-> "hasMany", author |-> "belongsTo", profile |-> "hasOne",
     roles |-> "manyToMany", tags |-> "belongsToMany"]

RelationNames == DOMAIN Relationships

\* The relation lists given to with(): one name, none, or two names.
WithLists ==
    {<<>>} \cup {<<r>> : r \in RelationNames \cup {"missing"}}
    \cup {<<"author", "missing">>, <<"posts", "roles">>}

\* static fillable of the related class (User, Post): the id is not in it.
RelatedFillable == {"ref", "name"}

\* model.relations[name]: not set, no value, one instance, or a list.
Unset == [state |-> "unset", items |-> <<>>]
Null == [state |-> "null", items |-> <<>>]
One(x) == [state |-> "one", items |-> <<x>>]
Many(xs) == [state |-> "many", items |-> xs]

\* The rows of the two tables: the primary key is the place in the table.
OwnerRows == [i \in DOMAIN owners |-> [id |-> i, ref |-> owners[i]]]
RelatedRows == [i \in DOMAIN related |-> [id |-> i, ref |-> related[i]]]

\* The pivot rows, in the order of their keys.
RECURSIVE PivotSeq(_, _, _)
PivotSeq(o, r, acc) ==
    IF o > MaxOwners THEN acc
    ELSE IF r \notin RelatedIds THEN PivotSeq(o + 1, 1, acc)
    ELSE PivotSeq(o, r + 1,
                  IF <<o, r>> \in pivot
                     THEN Append(acc, [owner |-> o, relatedKey |-> r])
                     ELSE acc)

PivotRows == PivotSeq(1, 1, <<>>)

\* new relationship.related(row): the constructor fills the fillable keys.
newRelated(row) ==
    [id |-> IF RelatedFillable = {} \/ "id" \in RelatedFillable THEN row.id ELSE NoKey,
     ref |-> IF RelatedFillable = {} \/ "ref" \in RelatedFillable THEN row.ref ELSE NoKey]

\* QueryBuilder.newFromBuilder / Model.fromAttributes: every column is kept.
newFromBuilder(row) ==
    [id |-> row.id, ref |-> row.ref, relations |-> [r \in RelationNames |-> Unset]]

\* Model.setRelation
setRelation(model, name, value) ==
    [model EXCEPT !.relations[name] = value]

\* rows.map(row => new relationship.related(row))
newRelatedAll(rows) == [i \in DOMAIN rows |-> newRelated(rows[i])]

\* The last row of rows whose column col is key, as reduce() leaves it in
\* the map; <<>> when there is none.
LastWith(rows, col, key) ==
    LET hits == SelectSeq(rows, LAMBDA row : row[col] = key)
    IN IF hits = <<>> THEN <<>> ELSE <<hits[Len(hits)]>>

Loaded(models, queries) == [models |-> models, queries |-> queries, error |-> FALSE]

\* RelationshipLoader.loadHasMany
loadHasManyPerModel(models, name) ==
    Loaded(models, Len(models) + 1)

loadHasMany(models, name) ==
    LET localKeys == {models[i].id : i \in DOMAIN models}
        relatedModels == SelectSeq(RelatedRows, LAMBDA row : row.ref \in localKeys)
        grouped(key) == newRelatedAll(SelectSeq(relatedModels, LAMBDA row : row.ref = key))
    IN Loaded([i \in DOMAIN models |->
                  setRelation(models[i], name, Many(grouped(models[i].id)))], 1)

\* RelationshipLoader.loadBelongsTo
loadBelongsTo(models, name) ==
    LET foreignKeys == {models[i].ref : i \in DOMAIN models} \ {NoKey}
        relatedModels == SelectSeq(RelatedRows, LAMBDA row : row.id \in foreignKeys)
        match(key) == LastWith(relatedModels, "id", key)
    IN IF foreignKeys = {} THEN Loaded(models, 0)
       ELSE Loaded([i \in DOMAIN models |->
                       setRelation(models[i], name,
                           IF match(models[i].ref) = <<>>
                              THEN Null
                              ELSE One(newRelated(match(models[i].ref)[1])))], 1)

\* RelationshipLoader.loadHasOne
loadHasOne(models, name) ==
    LET localKeys == {models[i].id : i \in DOMAIN models}
        relatedModels == SelectSeq(RelatedRows, LAMBDA row : row.ref \in localKeys)
        match(key) == LastWith(relatedModels, "ref", key)
    IN Loaded([i \in DOMAIN models |->
                  setRelation(models[i], name,
                      IF match(models[i].id) = <<>>
                         THEN Null
                         ELSE One(newRelated(match(models[i].id)[1])))], 1)

\* RelationshipLoader.loadmanyToMany
loadmanyToMany(models, name) ==
    LET localKeys == {models[i].id : i \in DOMAIN models}
        pivotResults == SelectSeq(PivotRows, LAMBDA p : p.owner \in localKeys)
        relatedKeys == {pivotResults[i].relatedKey : i \in DOMAIN pivotResults}
        relatedModels == SelectSeq(RelatedRows, LAMBDA row : row.id \in relatedKeys)
        \* pivotMap[key] mapped through relatedMap, then filter(Boolean)
        instances(key) ==
            LET resolved == SelectSeq(pivotResults,
                                      LAMBDA p : p.owner = key
                                          /\ LastWith(relatedModels, "id", p.relatedKey) # <<>>)
            IN newRelatedAll([i \in DOMAIN resolved |->
                                 LastWith(relatedModels, "id", resolved[i].relatedKey)[1]])
    IN IF pivotResults = <<>>
          THEN Loaded([i \in DOMAIN models |-> setRelation(models[i], name, Many(<<>>))], 1)
          ELSE Loaded([i \in DOMAIN models |->
                          setRelation(models[i], name, Many(instances(models[i].id)))], 2)

\* RelationshipLoader.loadRelation
loadRelation(models, name) ==
    IF models = <<>> THEN Loaded(models, 0)
    ELSE IF name \notin DOMAIN Relationships
        THEN [models |-> models, queries |-> 0, error |-> TRUE]
    ELSE CASE Relationships[name] = "hasMany" -> loadHasMany(models, name)
           [] Relationships[name] = "belongsTo" -> loadBelongsTo(models, name)
           [] Relationships[name] = "hasOne" -> loadHasOne(models, name)
           [] Relationships[name] = "manyToMany" -> loadmanyToMany(models, name)
           [] OTHER -> Loaded(models, 0)

\* RelationshipLoader.loadRelations: the names in order; an error ends it.
\* perRelation lists the queries each loaded relation took.
RECURSIVE loadRelations(_, _, _)
loadRelations(models, names, perRelation) ==
    IF names = <<>>
        THEN [models |-> models, perRelation |-> perRelation, error |-> FALSE]
    ELSE LET one == loadRelation(models, Head(names))
         IN IF one.error
               THEN [models |-> models, perRelation |-> perRelation, error |-> TRUE]
               ELSE loadRelations(one.models, Tail(names),
                                  Append(perRelation, one.queries))

\* QueryBuilder.get on the rows the query returned.
getModels(rows, relations) ==
    LET models == [i \in DOMAIN rows |-> newFromBuilder(rows[i])]
    IN IF Len(relations) > 0
          THEN loadRelations(models, relations, <<>>)
          ELSE [models |-> models, perRelation |-> <<>>, error |-> FALSE]

\* QueryBuilder.first on the rows the query, limited to one, returned.
firstModel(rows, relations) ==
    [models |-> IF rows = <<>> THEN <<>> ELSE <<newFromBuilder(rows[1])>>,
     perRelation |-> <<>>, error |-> FALSE]

\* limit(1)
Limit1(rows) == IF rows = <<>> THEN rows ELSE <<rows[1]>>

InitLoaderVars ==
    /\ owners = <<>>
    /\ related = <<>>
    /\ pivot = {}
    /\ requested = <<>>
    /\ terminal = "none"
    /\ got = <<>>
    /\ failed = FALSE
    /\ loadQueries = <<>>

IdleLoaderVars == InitLoaderVars

tables == <<owners, related, pivot>>
outcome == <<requested, terminal, got, failed, loadQueries>>

\* A row of the owning table is created, referring to a related row or none.
CreateOwner ==
    /\ terminal = "none"
    /\ Len(owners) < MaxOwners
    /\ \E ref \in RelatedIds \cup {NoKey} : owners' = Append(owners, ref)
    /\ UNCHANGED <<related, pivot, outcome>>
    /\ UNCHANGED notLoader

\* A row of the related table is created, referring to an owning row or none.
CreateRelated ==
    /\ terminal = "none"
    /\ Len(related) < Cardinality(RelatedIds)
    /\ \E ref \in OwnerIds \cup {NoKey} : related' = Append(related, ref)
    /\ UNCHANGED <<owners, pivot, outcome>>
    /\ UNCHANGED notLoader

\* A pivot row is created.
Attach ==
    /\ terminal = "none"
    /\ \E o \in DOMAIN owners, r \in DOMAIN related :
          /\ <<o, r>> \notin pivot
          /\ pivot' = pivot \cup {<<o, r>>}
    /\ UNCHANGED <<owners, related, outcome>>
    /\ UNCHANGED notLoader

\* Owner.with(relations).get()
Get ==
    /\ terminal = "none"
    /\ \E relations \in WithLists :
          LET res == getModels(OwnerRows, relations)
          IN /\ requested' = relations
             /\ got' = IF res.error THEN <<>> ELSE res.models
             /\ failed' = res.error
             /\ loadQueries' = res.perRelation
    /\ terminal' = "get"
    /\ UNCHANGED tables
    /\ UNCHANGED notLoader

\* Owner.with(relations).first()
First ==
    /\ terminal = "none"
    /\ \E relations \in WithLists :
          LET res == firstModel(Limit1(OwnerRows), relations)
          IN /\ requested' = relations
             /\ got' = IF res.error THEN <<>> ELSE res.models
             /\ failed' = res.error
             /\ loadQueries' = res.perRelation
    /\ terminal' = "first"
    /\ UNCHANGED tables
    /\ UNCHANGED notLoader

\* The result is consumed; the next query starts from a new builder.
NewQuery ==
    /\ terminal # "none"
    /\ requested' = <<>>
    /\ terminal' = "none"
    /\ got' = <<>>
    /\ failed' = FALSE
    /\ loadQueries' = <<>>
    /\ UNCHANGED tables
    /\ UNCHANGED notLoader

NextLoader ==
    \/ CreateOwner
    \/ CreateRelated
    \/ Attach
    \/ Get
    \/ First
    \/ NewQuery

(***************************************************************************)
(* Database connection management                                          *)
(***************************************************************************)

\* A connection parameter, an environment variable or a schema map that is
\* absent (undefined).
Absent == "undefined"

\* The values of env.DATABASE_URL and of the fields of a DatabaseConfig.
EnvUrls == {Absent, "postgres://env"}
ConfigUrls == {Absent, "postgres://config"}
Hosts == {Absent, "localhost"}
DatabaseNames == {Absent, "app"}
Usernames == {Absent, "admin"}
Ports == {0, 6543}
SchemaMaps == {"schemaA", "schemaB"}

\* port: config?.connection.port || 5432
DefaultPort == 5432

\* How many configureDatabase calls are explored.
MaxConfigures == 2

DatabaseConfigs ==
    [url : ConfigUrls, host : Hosts, port : Ports, database : DatabaseNames,
     username : Usernames, schema : SchemaMaps]

\* postgres(url) and postgres({host, port, database, username, ...}): the
\* client is lazy, nothing is connected or validated when it is made.
postgresFromUrl(url) ==
    [url |-> url, host |-> Absent, port |-> 0, database |-> Absent, username |-> Absent]

postgresFromParams(cfg) ==
    [url |-> Absent,
     host |-> cfg.host,
     port |-> IF cfg.port = 0 THEN DefaultPort ELSE cfg.port,
     database |-> cfg.database,
     username |-> cfg.username]

\* drizzle(client, { schema }): a handle object.
drizzle(client, schema) == [client |-> client, schema |-> schema]

\* A `database` binding that holds no handle (a falsy value).
NoHandle == drizzle(postgresFromUrl(Absent), "no handle")

\* export let database = drizzle(postgres(env.DATABASE_URL)): the binding is
\* initialised when the module is loaded, from whatever the environment holds.
moduleLoad(env) == drizzle(postgresFromUrl(env), Absent)

\* configureDatabase(config): the handle it installs, or the configuration error.
configureDatabase(cfg, env) ==
    LET url == IF cfg.url # Absent THEN cfg.url ELSE env
    IN  IF url # Absent
        THEN [threw |-> FALSE, handle |-> drizzle(postgresFromUrl(url), cfg.schema)]
        ELSE IF cfg.host = Absent \/ cfg.database = Absent \/ cfg.username = Absent
        THEN [threw |-> TRUE, handle |-> NoHandle]
        ELSE [threw |-> FALSE, handle |-> drizzle(postgresFromParams(cfg), cfg.schema)]

\* getDatabase(): throws only when the binding is falsy.
getDatabase(db) ==
    IF db = NoHandle
    THEN [threw |-> TRUE, handle |-> NoHandle]
    ELSE [threw |-> FALSE, handle |-> db]

NoDbCall == [op |-> "none", threw |-> FALSE, handle |-> NoHandle]

InitDatabaseVars ==
    /\ envUrl \in EnvUrls
    /\ database = moduleLoad(envUrl)
    /\ configures = 0
    /\ dbCall = NoDbCall

IdleDatabaseVars ==
    /\ envUrl = "postgres://env"
    /\ database = moduleLoad(envUrl)
    /\ configures = 0
    /\ dbCall = NoDbCall

ConfigureDatabase ==
    /\ configures < MaxConfigures
    /\ \E cfg \in DatabaseConfigs :
          LET r == configureDatabase(cfg, envUrl)
          IN  /\ database' = IF r.threw THEN database ELSE r.handle
              /\ dbCall' = [op |-> "configureDatabase", threw |-> r.threw, handle |-> r.handle]
    /\ configures' = configures + 1
    /\ UNCHANGED envUrl
    /\ UNCHANGED notDatabase

GetDatabase ==
    /\ LET r == getDatabase(database)
       IN  dbCall' = [op |-> "getDatabase", threw |-> r.threw, handle |-> r.handle]
    /\ UNCHANGED <<envUrl, database, configures>>
    /\ UNCHANGED notDatabase

(***************************************************************************)
(* MigrationRunner                                                         *)
(***************************************************************************)

\* Migrations are named 1, 2, ... in the order the runner's environment
\* lists them; MaxMigrations of them exist at most, and runMigrations is
\* called MaxRuns times at most.
MaxMigrations == 3
MaxRuns == 2

NoError == [kind |-> "none", name |-> 0]

RECURSIVE Ascending(_, _)
Ascending(from, to) ==
    IF from > to THEN <<>> ELSE <<from>> \o Ascending(from + 1, to)

InLedger(name, rows) == \E i \in DOMAIN rows : rows[i] = name

\* getPendingMigrations(): the migrations present that the ledger does not
\* hold, in order.
getPendingMigrations(files, rows) ==
    LET notRecorded(name) == ~InLedger(name, rows)
    IN  SelectSeq(Ascending(1, files), notRecorded)

\* recordMigration(name)
recordMigration(rows, name) == Append(rows, name)

\* The catch block of the loop with the failure swallowed: the batch goes on.
onUpFailureContinue(pending, i) ==
    [pc |-> IF i < Len(pending) THEN "up" ELSE "done",
     cursor |-> i + 1,
     error |-> NoError]

\* catch (error) { console.error(...); throw error }
onUpFailure(pending, i) ==
    [pc |-> "threw",
     cursor |-> i,
     error |-> [kind |-> "up", name |-> pending[i]]]

InitRunnerVars ==
    /\ migrationFiles \in 0..MaxMigrations
    /\ ledger = <<>>
    /\ ledgerAtStart = <<>>
    /\ pendingMigrations = <<>>
    /\ cursor = 0
    /\ upInvoked = <<>>
    /\ upFailedAt = 0
    /\ runnerPc = "idle"
    /\ runnerError = NoError
    /\ runs = 0

IdleRunnerVars ==
    /\ migrationFiles = 0
    /\ ledger = <<>>
    /\ ledgerAtStart = <<>>
    /\ pendingMigrations = <<>>
    /\ cursor = 0
    /\ upInvoked = <<>>
    /\ upFailedAt = 0
    /\ runnerPc = "idle"
    /\ runnerError = NoError
    /\ runs = 0

RunnerIsIdle == runnerPc \in {"idle", "done", "threw"}

\* A migration file is added between two runs.
AddMigrationFile ==
    /\ RunnerIsIdle
    /\ migrationFiles < MaxMigrations
    /\ migrationFiles' = migrationFiles + 1
    /\ UNCHANGED <<ledger, ledgerAtStart, pendingMigrations, cursor, upInvoked,
                   upFailedAt, runnerPc, runnerError, runs>>
    /\ UNCHANGED notRunner

\* runMigrations() up to the loop: getDatabase(), createMigrationsTable(),
\* getPendingMigrations().
RunMigrationsStart ==
    /\ RunnerIsIdle
    /\ runs < MaxRuns
    /\ runs' = runs + 1
    /\ ledgerAtStart' = ledger
    /\ upInvoked' = <<>>
    /\ upFailedAt' = 0
    /\ cursor' = 1
    /\ IF getDatabase(database).threw
       THEN /\ pendingMigrations' = <<>>
            /\ runnerPc' = "threw"
            /\ runnerError' = [kind |-> "getDatabase", name |-> 0]
       ELSE /\ pendingMigrations' = getPendingMigrations(migrationFiles, ledger)
            /\ runnerPc' = IF pendingMigrations' = <<>> THEN "done" ELSE "up"
            /\ runnerError' = NoError
    /\ UNCHANGED <<migrationFiles, ledger>>
    /\ UNCHANGED notRunner

\* The same, with the statement of createMigrationsTable() failing: nothing
\* catches it in runMigrations.
RunMigrationsStartFails ==
    /\ RunnerIsIdle
    /\ runs < MaxRuns
    /\ ~getDatabase(database).threw
    /\ runs' = runs + 1
    /\ ledgerAtStart' = ledger
    /\ upInvoked' = <<>>
    /\ upFailedAt' = 0
    /\ cursor' = 1
    /\ pendingMigrations' = <<>>
    /\ runnerPc' = "threw"
    /\ runnerError' = [kind |-> "createMigrationsTable", name |-> 0]
    /\ UNCHANGED <<migrationFiles, ledger>>
    /\ UNCHANGED notRunner

\* await migration.instance.up() resolves.
MigrationUp ==
    /\ runnerPc = "up"
    /\ upInvoked' = Append(upInvoked, pendingMigrations[cursor])
    /\ runnerPc' = "record"
    /\ UNCHANGED <<migrationFiles, ledger, ledgerAtStart, pendingMigrations, cursor,
                   upFailedAt, runnerError, runs>>
    /\ UNCHANGED notRunner

\* await migration.instance.up() rejects.
MigrationUpFails ==
    /\ runnerPc = "up"
    /\ upInvoked' = Append(upInvoked, pendingMigrations[cursor])
    /\ upFailedAt' = cursor
    /\ LET next == onUpFailure(pendingMigrations, cursor)
       IN  /\ runnerPc' = next.pc
           /\ cursor' = next.cursor
           /\ runnerError' = next.error
    /\ UNCHANGED <<migrationFiles, ledger, ledgerAtStart, pendingMigrations, runs>>
    /\ UNCHANGED notRunner

\* await this.recordMigration(migration.name) resolves; the loop goes on.
RecordMigration ==
    /\ runnerPc = "record"
    /\ ledger' = recordMigration(ledger, pendingMigrations[cursor])
    /\ cursor' = cursor + 1
    /\ runnerPc' = IF cursor < Len(pendingMigrations) THEN "up" ELSE "done"
    /\ UNCHANGED <<migrationFiles, ledgerAtStart, pendingMigrations, upInvoked,
                   upFailedAt, runnerError, runs>>
    /\ UNCHANGED notRunner

\* await this.recordMigration(migration.name) rejects: same catch block.
RecordMigrationFails ==
    /\ runnerPc = "record"
    /\ runnerPc' = "threw"
    /\ runnerError' = [kind |-> "record", name |-> pendingMigrations[cursor]]
    /\ UNCHANGED <<migrationFiles, ledger, ledgerAtStart, pendingMigrations, cursor,
                   upInvoked, upFailedAt, runs>>
    /\ UNCHANGED notRunner

\* The database layer: the connection and the runner that uses it.
NextDatabase ==
    \/ ConfigureDatabase
    \/ GetDatabase
    \/ AddMigrationFile
    \/ RunMigrationsStart
    \/ RunMigrationsStartFails
    \/ MigrationUp
    \/ MigrationUpFails
    \/ RecordMigration
    \/ RecordMigrationFails

(***************************************************************************)
(* The migrations build-tool plugin                                        *)
(***************************************************************************)

\* How many plugin objects are made and how many times buildStart is invoked.
MaxPlugins == 1
MaxBuildStarts == 2

\* The tables the generated auth schema can declare, and the schemas explored.
AuthSchemas == {{"user"}, {"user", "session"}}

\* A file that does not exist, and a snapshot file that is not JSON.
NoFile == {"<no file>"}
NotJson == {"<not json>"}

\* omniConfig.auth.migrations.autoMigrate and .strategy
AutoMigrateSettings == {"unset", "true", "false"}
StrategySettings == {"unset", "push", "migrate"}

\* migrationsConfig?.strategy || 'push'
effectiveStrategy(setting) == IF setting = "unset" THEN "push" ELSE setting

\* generateDrizzleJson(schemaImports): the snapshot of the exported tables.
generateDrizzleJson(schema) == schema

\* generateMigration(prev, cur): the statements that turn prev into cur.
generateMigration(prev, cur) ==
    {<<"create", t>> : t \in cur \ prev} \cup {<<"drop", t>> : t \in prev \ cur}

\* The migrate branch of runMigrations: the content of the snapshot file
\* after it. The previous snapshot is the current one when no file exists;
\* the file is written only when there are statements.
snapshotAfterMigrate(file, schema) ==
    LET currentSnapshot == generateDrizzleJson(schema)
        prevSnapshot == IF file = NoFile THEN currentSnapshot ELSE file
        statements == generateMigration(prevSnapshot, currentSnapshot)
    IN  IF statements # {} THEN currentSnapshot ELSE file

\* The synchronous head of runMigrations: the two skip checks.
runMigrationsHead(hasUrl, schemaFile) ==
    IF ~hasUrl THEN "skip"
    ELSE IF schemaFile = NoFile THEN "skip"
    ELSE "run"

\* A catch block in buildStart that lets the error through.
buildStartCatchRethrows(kind) == IF kind = "threw" THEN "threw" ELSE "returned"

\* How buildStart ends after runMigrations ended as `kind`: a rejection is
\* caught, logged and dropped.
buildStartCatch(kind) == "returned"

NewPlugin == [configResolved |-> FALSE, hasRun |-> FALSE, starts |-> 0]

NewCall(i, at, stage, ended) ==
    [plugin |-> i, pc |-> at, stage |-> stage, outcome |-> ended,
     strategy |-> effectiveStrategy(strategySetting),
     current |-> NoFile, persisted |-> NoFile]

\* buildStart() up to its first await.
enterBuildStart(i) ==
    IF ~plugins[i].configResolved \/ plugins[i].hasRun
    THEN NewCall(i, "returned", "none", "not run")
    ELSE IF autoMigrate = "false"
    THEN NewCall(i, "returned", "none", "disabled")
    ELSE NewCall(i, "awaiting", runMigrationsHead(processDbUrl, authSchemaFile), "pending")

InitPluginVars ==
    /\ autoMigrate \in AutoMigrateSettings
    /\ strategySetting \in StrategySettings
    /\ processDbUrl \in BOOLEAN
    /\ authSchemaFile \in {NoFile} \cup AuthSchemas
    /\ snapshotFile \in {NoFile, NotJson} \cup AuthSchemas
    /\ plugins = <<>>
    /\ buildStarts = <<>>

IdlePluginVars ==
    /\ autoMigrate = "unset"
    /\ strategySetting = "unset"
    /\ processDbUrl = FALSE
    /\ authSchemaFile = NoFile
    /\ snapshotFile = NoFile
    /\ plugins = <<>>
    /\ buildStarts = <<>>

pluginFrame == <<autoMigrate, strategySetting, processDbUrl>>

\* omniMigrationsPlugin(omniConfig, root)
CreatePlugin ==
    /\ Len(plugins) < MaxPlugins
    /\ plugins' = Append(plugins, NewPlugin)
    /\ UNCHANGED <<pluginFrame, authSchemaFile, snapshotFile, buildStarts>>
    /\ UNCHANGED notPlugin

\* The plugin's configResolved hook.
ConfigResolved ==
    /\ \E i \in DOMAIN plugins :
          plugins' = [plugins EXCEPT ![i].configResolved = TRUE]
    /\ UNCHANGED <<pluginFrame, authSchemaFile, snapshotFile, buildStarts>>
    /\ UNCHANGED notPlugin

\* The plugin's buildStart hook, up to its first await.
BuildStart ==
    /\ Len(buildStarts) < MaxBuildStarts
    /\ \E i \in DOMAIN plugins :
          LET call == enterBuildStart(i)
          IN  /\ buildStarts' = Append(buildStarts, call)
              /\ plugins' = IF call.pc = "awaiting"
                            THEN [plugins EXCEPT ![i].starts = @ + 1]
                            ELSE plugins
    /\ UNCHANGED <<pluginFrame, authSchemaFile, snapshotFile>>
    /\ UNCHANGED notPlugin

\* The configResolved hook of omniSvelte's wrapper: a new plugin object, its
\* configResolved, then its buildStart.
WrapperConfigResolved ==
    /\ Len(plugins) < MaxPlugins
    /\ Len(buildStarts) < MaxBuildStarts
    /\ LET i == Len(plugins) + 1
           resolved == [NewPlugin EXCEPT !.configResolved = TRUE]
           head == runMigrationsHead(processDbUrl, authSchemaFile)
           call == IF autoMigrate = "false"
                   THEN NewCall(i, "returned", "none", "disabled")
                   ELSE NewCall(i, "awaiting", head, "pending")
       IN  /\ buildStarts' = Append(buildStarts, call)
           /\ plugins' = Append(plugins,
                                IF call.pc = "awaiting"
                                THEN [resolved EXCEPT !.starts = 1]
                                ELSE resolved)
    /\ UNCHANGED <<pluginFrame, authSchemaFile, snapshotFile>>
    /\ UNCHANGED notPlugin

\* runMigrations returned at one of its skip checks: hasRun = true.
FinishSkipped ==
    /\ \E c \in DOMAIN buildStarts :
          /\ buildStarts[c].pc = "awaiting"
          /\ buildStarts[c].stage = "skip"
          /\ buildStarts' = [buildStarts EXCEPT ![c].pc = buildStartCatch("skipped"),
                                                ![c].outcome = "skipped"]
          /\ plugins' = [plugins EXCEPT ![buildStarts[c].plugin].hasRun = TRUE]
    /\ UNCHANGED <<pluginFrame, authSchemaFile, snapshotFile>>
    /\ UNCHANGED notPlugin

\* Something inside runMigrations' try block threw (an import, getDatabase,
\* pushSchema, apply, reading or parsing the snapshot, generateMigration,
\* writing the snapshot): re-thrown to buildStart, which does not set hasRun.
FinishThrows ==
    /\ \E c \in DOMAIN buildStarts :
          /\ buildStarts[c].pc = "awaiting"
          /\ buildStarts[c].stage = "run"
          /\ buildStarts' = [buildStarts EXCEPT ![c].pc = buildStartCatch("threw"),
                                                ![c].outcome = "threw"]
    /\ UNCHANGED <<pluginFrame, authSchemaFile, snapshotFile, plugins>>
    /\ UNCHANGED notPlugin

\* Strategy push: pushSchema and apply succeeded.
FinishPush ==
    /\ \E c \in DOMAIN buildStarts :
          /\ buildStarts[c].pc = "awaiting"
          /\ buildStarts[c].stage = "run"
          /\ buildStarts[c].strategy = "push"
          /\ buildStarts' = [buildStarts EXCEPT ![c].pc = buildStartCatch("pushed"),
                                                ![c].outcome = "pushed"]
          /\ plugins' = [plugins EXCEPT ![buildStarts[c].plugin].hasRun = TRUE]
    /\ UNCHANGED <<pluginFrame, authSchemaFile, snapshotFile>>
    /\ UNCHANGED notPlugin

\* Strategy migrate: the snapshot is generated, diffed and (perhaps) saved.
FinishMigrate ==
    /\ snapshotFile # NotJson
    /\ \E c \in DOMAIN buildStarts :
          /\ buildStarts[c].pc = "awaiting"
          /\ buildStarts[c].stage = "run"
          /\ buildStarts[c].strategy = "migrate"
          /\ snapshotFile' = snapshotAfterMigrate(snapshotFile, authSchemaFile)
          /\ buildStarts' = [buildStarts EXCEPT ![c].pc = buildStartCatch("migrated"),
                                                ![c].outcome = "migrated",
                                                ![c].current = generateDrizzleJson(authSchemaFile),
                                                ![c].persisted = snapshotFile']
          /\ plugins' = [plugins EXCEPT ![buildStarts[c].plugin].hasRun = TRUE]
    /\ UNCHANGED <<pluginFrame, authSchemaFile>>
    /\ UNCHANGED notPlugin

\* The auth schema file is (re)generated by the auth code generation.
WriteAuthSchemaFile ==
    /\ \E schema \in AuthSchemas :
          /\ schema # authSchemaFile
          /\ authSchemaFile' = schema
    /\ UNCHANGED <<pluginFrame, snapshotFile, plugins, buildStarts>>
    /\ UNCHANGED notPlugin

NextPlugin ==
    \/ CreatePlugin
    \/ ConfigResolved
    \/ BuildStart
    \/ WrapperConfigResolved
    \/ FinishSkipped
    \/ FinishThrows
    \/ FinishPush
    \/ FinishMigrate
    \/ WriteAuthSchemaFile

(***************************************************************************)
(* Auth schema generation (the file-emitting generateAuthSchema)           *)
(***************************************************************************)

\* How many generateAuthSchema calls are explored.
MaxGenerations == 3

\* Field names are sequences of syllables, so that `username` ends with
\* `name` the way the text "username:" holds the text "name:".
FieldId == <<"id">>
FieldName == <<"name">>
FieldEmail == <<"email">>
FieldUsername == <<"user", "name">>
FieldToken == <<"token">>
FieldRole == <<"role">>

\* The auth configurations explored: the plugins, and a part of the options
\* that shapes the tables but is left out of the hash.
AuthPlugins == {{}, {"username"}}
AuthConfigs == [dbType : {"pg"}, plugins : AuthPlugins, additionalFields : BOOLEAN]

\* No config module at auth/__generated__/config.js (or no default export).
NoAuthConfig == [dbType |-> "none", plugins |-> {}, additionalFields |-> FALSE]

\* A column of the generated drizzle schema: `name: text('name').notNull()`.
DrizzleColumn(name, builder, notNull, primaryKey, unique) ==
    [name |-> name, builder |-> builder, notNull |-> notNull,
     primaryKey |-> primaryKey, unique |-> unique]

\* generateDrizzleSchemaCode(authOptions): the tables of getAuthTables(),
\* each with `id` as its first column.
generateDrizzleSchemaCode(cfg) ==
    << [name |-> "user",
        columns |->
            << DrizzleColumn(FieldId, "text", FALSE, TRUE, FALSE),
               DrizzleColumn(FieldName, "text", TRUE, FALSE, FALSE),
               DrizzleColumn(FieldEmail, "text", TRUE, FALSE, TRUE) >>
            \o (IF "username" \in cfg.plugins
                THEN << DrizzleColumn(FieldUsername, "text", FALSE, FALSE, TRUE) >>
                ELSE << >>)
            \o (IF cfg.additionalFields
                THEN << DrizzleColumn(FieldRole, "text", FALSE, FALSE, FALSE) >>
                ELSE << >>)],
       [name |-> "session",
        columns |->
            << DrizzleColumn(FieldId, "text", FALSE, TRUE, FALSE),
               DrizzleColumn(FieldToken, "text", TRUE, FALSE, TRUE) >>] >>

\* No file at .omni/auth-schema.ts.
NoSchemaFile == << >>

\* hashAuthConfig(config): SHA-256 of {database type, plugins}; two configs
\* get the same hash exactly when these parts are equal.
hashAuthConfig(cfg) == <<cfg.dbType, cfg.plugins>>

\* .omni/auth-schema.meta.json: absent, not JSON, or a SchemaMetadata.
NoMetadata == [kind |-> "none", configHash |-> <<"none", {}>>, generatedAt |-> 0]
NotJsonMetadata == [kind |-> "not json", configHash |-> <<"none", {}>>, generatedAt |-> 0]
Metadata(hash, now) == [kind |-> "json", configHash |-> hash, generatedAt |-> now]

\* Regeneration decided without looking at the metadata.
shouldRegenerateAlways(meta, cfg) == TRUE

\* shouldRegenerateSchema(projectRoot, config)
shouldRegenerateSchema(meta, cfg) ==
    IF meta.kind = "none" THEN TRUE
    ELSE IF meta.kind = "not json" THEN TRUE
    ELSE meta.configHash # hashAuthConfig(cfg)

\* saveMetadata(projectRoot, config)
saveMetadata(cfg, now) == Metadata(hashAuthConfig(cfg), now)

\* generateAuthSchema(projectRoot, outputPath, verbose, forceRegenerate) when
\* nothing fails: the files after it and whether it regenerated.
generateAuthSchema(cfg, meta, file, force, now) ==
    IF ~force /\ ~shouldRegenerateSchema(meta, cfg)
    THEN [regenerated |-> FALSE, file |-> file, meta |-> meta]
    ELSE [regenerated |-> TRUE,
          file |-> generateDrizzleSchemaCode(cfg),
          meta |-> saveMetadata(cfg, now)]

NoGenCall ==
    [op |-> "none", force |-> FALSE, threw |-> FALSE, regenerated |-> FALSE,
     config |-> NoAuthConfig, before |-> NoMetadata, after |-> NoMetadata]

InitGeneratorVars ==
    /\ authConfig \in AuthConfigs \cup {NoAuthConfig}
    /\ metadataFile = NoMetadata
    /\ generatedSchema = NoSchemaFile
    /\ genCall = NoGenCall
    /\ generations = 0

IdleGeneratorVars ==
    /\ authConfig = NoAuthConfig
    /\ metadataFile = NoMetadata
    /\ generatedSchema = NoSchemaFile
    /\ genCall = NoGenCall
    /\ generations = 0

\* generateAuthSchema(...) runs to its end.
GenerateAuthSchema ==
    /\ generations < MaxGenerations
    /\ authConfig # NoAuthConfig
    /\ \E force \in BOOLEAN :
          LET r == generateAuthSchema(authConfig, metadataFile, generatedSchema,
                                      force, generations + 1)
          IN  /\ generatedSchema' = r.file
              /\ metadataFile' = r.meta
              /\ genCall' = [op |-> "generateAuthSchema", force |-> force,
                             threw |-> FALSE, regenerated |-> r.regenerated,
                             config |-> authConfig, before |-> metadataFile,
                             after |-> r.meta]
    /\ generations' = generations + 1
    /\ UNCHANGED authConfig
    /\ UNCHANGED notGenerator

\* generateAuthSchema(...) throws before it writes: the config module is
\* missing or has no default export, or generating the code fails.
GenerateAuthSchemaThrows ==
    /\ generations < MaxGenerations
    /\ \E force \in BOOLEAN :
          /\ authConfig # NoAuthConfig =>
                 (force \/ shouldRegenerateSchema(metadataFile, authConfig))
          /\ genCall' = [op |-> "generateAuthSchema", force |-> force,
                         threw |-> TRUE, regenerated |-> FALSE,
                         config |-> authConfig, before |-> metadataFile,
                         after |-> metadataFile]
    /\ generations' = generations + 1
    /\ UNCHANGED <<authConfig, metadataFile, generatedSchema>>
    /\ UNCHANGED notGenerator

\* The developer changes the auth configuration.
EditAuthConfig ==
    /\ \E cfg \in AuthConfigs :
          /\ cfg # authConfig
          /\ authConfig' = cfg
    /\ UNCHANGED <<metadataFile, generatedSchema, genCall, generations>>
    /\ UNCHANGED notGenerator

\* The metadata file is removed, or left with content that is not JSON.
DamageMetadata ==
    /\ metadataFile.kind = "json"
    /\ metadataFile' \in {NoMetadata, NotJsonMetadata}
    /\ UNCHANGED <<authConfig, generatedSchema, genCall, generations>>
    /\ UNCHANGED notGenerator

\* The generated schema file is removed while its metadata file stays.
RemoveSchemaFile ==
    /\ generatedSchema # NoSchemaFile
    /\ generatedSchema' = NoSchemaFile
    /\ UNCHANGED <<authConfig, metadataFile, genCall, generations>>
    /\ UNCHANGED notGenerator

NextGenerator ==
    \/ GenerateAuthSchema
    \/ RemoveSchemaFile
    \/ GenerateAuthSchemaThrows
    \/ EditAuthConfig
    \/ DamageMetadata

(***************************************************************************)
(* QueryBuilder.chunk                                                      *)
(***************************************************************************)

\* The largest result set and the largest page size explored.
MaxRows == 6
MaxChunkSize == 3

\* this.offset(offset).limit(limit).get() on a result set of `total` rows,
\* numbered in the order the query returns them.
pageOfRows(total, offset, limit) ==
    [i \in 1..(IF total - offset < 0 THEN 0
               ELSE IF total - offset < limit THEN total - offset
               ELSE limit) |-> offset + i]

\* hasMore left true after every non-empty page.
chunkHasMoreAlways(results, size) == TRUE

\* hasMore = results.length === size
chunkHasMore(results, size) == Len(results) = size

InitChunkVars ==
    /\ resultRows \in 0..MaxRows
    /\ chunkSize \in 1..MaxChunkSize
    /\ chunkPage = 0
    /\ chunkPc = "idle"
    /\ fetched = << >>
    /\ batches = << >>

IdleChunkVars ==
    /\ resultRows = 0
    /\ chunkSize = 1
    /\ chunkPage = 0
    /\ chunkPc = "idle"
    /\ fetched = << >>
    /\ batches = << >>

\* chunk(size, callback) is called: page = 1, hasMore = true.
ChunkStart ==
    /\ chunkPc = "idle"
    /\ chunkPage' = 1
    /\ chunkPc' = "fetch"
    /\ UNCHANGED <<resultRows, chunkSize, fetched, batches>>
    /\ UNCHANGED notChunk

\* One page is fetched; an empty one ends the loop.
ChunkFetch ==
    /\ chunkPc = "fetch"
    /\ LET results == pageOfRows(resultRows, (chunkPage - 1) * chunkSize, chunkSize)
       IN  /\ fetched' = Append(fetched, [page |-> chunkPage, rows |-> results])
           /\ chunkPc' = IF Len(results) = 0 THEN "done" ELSE "callback"
    /\ UNCHANGED <<resultRows, chunkSize, chunkPage, batches>>
    /\ UNCHANGED notChunk

\* The query of a page fails: chunk rejects.
ChunkFetchFails ==
    /\ chunkPc = "fetch"
    /\ chunkPc' = "threw"
    /\ UNCHANGED <<resultRows, chunkSize, chunkPage, fetched, batches>>
    /\ UNCHANGED notChunk

\* await callback(results) resolves; hasMore and page are updated.
ChunkCallback ==
    /\ chunkPc = "callback"
    /\ LET results == fetched[Len(fetched)].rows
       IN  /\ batches' = Append(batches, results)
           /\ chunkPc' = IF chunkHasMore(results, chunkSize) THEN "fetch" ELSE "done"
    /\ chunkPage' = chunkPage + 1
    /\ UNCHANGED <<resultRows, chunkSize, fetched>>
    /\ UNCHANGED notChunk

\* await callback(results) rejects: chunk rejects.
ChunkCallbackThrows ==
    /\ chunkPc = "callback"
    /\ batches' = Append(batches, fetched[Len(fetched)].rows)
    /\ chunkPc' = "threw"
    /\ UNCHANGED <<resultRows, chunkSize, chunkPage, fetched>>
    /\ UNCHANGED notChunk

NextChunk ==
    \/ ChunkStart
    \/ ChunkFetch
    \/ ChunkFetchFails
    \/ ChunkCallback
    \/ ChunkCallbackThrows

(***************************************************************************)
(* Auth schema synchronization (AuthSchemaSync)                            *)
(***************************************************************************)

\* How many sync passes and how many direct file mutations are explored.
MaxPasses == 2
MaxMutations == 2

\* parseColumn: the field type read off the column's builder call.
builderType(builder) ==
    IF builder \in {"text", "varchar"} THEN "string"
    ELSE IF builder \in {"integer", "int"} THEN "integer"
    ELSE IF builder = "boolean" THEN "boolean"
    ELSE IF builder = "timestamp" THEN "timestamp"
    ELSE IF builder = "date" THEN "date"
    ELSE IF builder \in {"json", "jsonb"} THEN "json"
    ELSE "string"

parseColumn(col) ==
    [name |-> col.name,
     type |-> builderType(col.builder),
     nullable |-> ~col.notNull,
     primary |-> col.primaryKey,
     unique |-> col.unique]

\* parseSchema(): the tables of the generated file, in the order they are
\* declared, each with its columns in order.
parseSchema(file) ==
    [i \in DOMAIN file |->
        [name |-> file[i].name,
         columns |-> [j \in DOMAIN file[i].columns |-> parseColumn(file[i].columns[j])]]]

\* The field definition made from a parsed column (mergeSchemas and
\* convertToSchema build the same object).
fieldFromColumn(col) ==
    [name |-> col.name,
     type |-> col.type,
     required |-> ~col.nullable,
     primary |-> col.primary,
     unique |-> col.unique,
     isAuthField |-> TRUE]

\* A field the developer wrote.
UserField(name, type) ==
    [name |-> name, type |-> type, required |-> TRUE, primary |-> FALSE,
     unique |-> FALSE, isAuthField |-> FALSE]

\* A discovered application schema; filePath is TRUE when discovery recorded
\* the file it came from.
AppSchema(name, fields) ==
    [name |-> name, filePath |-> TRUE, fields |-> fields,
     hasAuthFields |-> FALSE, generatedBy |-> "user"]

\* convertToSchema(table)
convertToSchema(table) ==
    [name |-> table.name,
     filePath |-> FALSE,
     fields |-> [j \in DOMAIN table.columns |-> fieldFromColumn(table.columns[j])],
     hasAuthFields |-> FALSE,
     generatedBy |-> "auth"]

InSeq(x, s) == \E i \in DOMAIN s : s[i] = x

\* existing.find(s => s.name === tableName): its position, 0 when none.
findSchema(existing, name) ==
    LET S == {i \in DOMAIN existing : existing[i].name = name}
    IN  IF S = {} THEN 0 ELSE CHOOSE i \in S : \A j \in S : i <= j

\* auth.get(tableName): its position, 0 when none.
findTable(auth, name) ==
    LET S == {i \in DOMAIN auth : auth[i].name = name}
    IN  IF S = {} THEN 0 ELSE CHOOSE i \in S : \A j \in S : i <= j

\* existingSchema.fields[columnName] is set.
hasField(schema, fieldName) ==
    \E k \in DOMAIN schema.fields : schema.fields[k].name = fieldName

missingColumns(schema, table) ==
    SelectSeq(table.columns, LAMBDA col : ~hasField(schema, col.name))

\* detectChanges(existing, auth)
detectChanges(existing, auth) ==
    LET names == [i \in DOMAIN auth |-> auth[i].name]
        isNew(n) == findSchema(existing, n) = 0
        isModified(n) ==
            /\ findSchema(existing, n) # 0
            /\ missingColumns(existing[findSchema(existing, n)],
                              auth[findTable(auth, n)]) # << >>
        newTables == SelectSeq(names, isNew)
        modifiedTables == SelectSeq(names, isModified)
    IN  [hasChanges |-> newTables # << >> \/ modifiedTables # << >>,
         newTables |-> newTables,
         modifiedTables |-> modifiedTables]

\* The inner loop of mergeSchemas with the presence test dropped: every auth
\* column is assigned.
mergeColumnsOverwrite(schema, table) ==
    LET kept == SelectSeq(schema.fields,
                          LAMBDA f : \A j \in DOMAIN table.columns :
                                        table.columns[j].name # f.name)
        assigned == [j \in DOMAIN table.columns |-> fieldFromColumn(table.columns[j])]
    IN  [schema EXCEPT !.fields = kept \o assigned, !.hasAuthFields = TRUE]

\* The inner loop of mergeSchemas: the missing columns are appended and the
\* metadata is stamped.
mergeColumns(schema, table) ==
    LET missing == missingColumns(schema, table)
        added == [j \in DOMAIN missing |-> fieldFromColumn(missing[j])]
    IN  [schema EXCEPT !.fields = @ \o added, !.hasAuthFields = TRUE]

\* mergeSchemas with its second loop left out.
mergeSchemasNewTablesOnly(existing, auth, changes) ==
    existing \o [i \in DOMAIN changes.newTables |->
                    convertToSchema(auth[findTable(auth, changes.newTables[i])])]

\* mergeSchemas(existing, auth, changes)
mergeSchemas(existing, auth, changes) ==
    LET withNew ==
            existing \o [i \in DOMAIN changes.newTables |->
                            convertToSchema(auth[findTable(auth, changes.newTables[i])])]
    IN  [i \in DOMAIN withNew |->
            IF /\ InSeq(withNew[i].name, changes.modifiedTables)
               /\ i = findSchema(withNew, withNew[i].name)
            THEN mergeColumns(withNew[i], auth[findTable(auth, withNew[i].name)])
            ELSE withNew[i]]

\* The user schema file is a sequence of defineSchema blocks, each with the
\* quote its table name is written in and the names of its fields, in order.
Quotes == {"'", "\""}
Block(name, quote, fields) == [name |-> name, quote |-> quote, fields |-> fields]

\* Keys every field object of a schema file holds beside the field names.
PropertyKeys == {<<"type">>}

IsSuffix(s, t) ==
    /\ Len(s) <= Len(t)
    /\ SubSeq(t, Len(t) - Len(s) + 1, Len(t)) = s

\* schemaContent.includes(`${fieldName}:`): some key of the file ends with
\* the field's name.
includesFieldKey(file, fieldName) ==
    \E b \in DOMAIN file :
        \/ \E k \in DOMAIN file[b].fields : IsSuffix(fieldName, file[b].fields[k])
        \/ /\ file[b].fields # << >>
           /\ \E key \in PropertyKeys : IsSuffix(fieldName, key)

\* schemaContent.includes(`defineSchema('${tableName}'`)
includesDefineSchema(file, tableName) ==
    \E b \in DOMAIN file : file[b].name = tableName /\ file[b].quote = "'"

\* findUserSchemaFile(existingSchemas): the position of the schema whose
\* file is the user schema file, 0 when there is none (none of the
\* conventional fallback paths exists).
findUserSchemaFile(existing) ==
    LET S == {i \in DOMAIN existing : existing[i].name \in {"user", "users"}}
        first == IF S = {} THEN 0 ELSE CHOOSE i \in S : \A j \in S : i <= j
    IN  IF first # 0 /\ existing[first].filePath THEN first ELSE 0

\* The block the defineSchema regular expression finds (either quote).
findBlock(file, tableName) ==
    LET S == {b \in DOMAIN file : file[b].name = tableName}
    IN  IF S = {} THEN 0 ELSE CHOOSE b \in S : \A c \in S : b <= c

\* updateUserOmniSchema(authTables, existingSchemas): the file after it.
updateUserOmniSchema(file, auth, existing) ==
    LET t == findTable(auth, "user")
        u == findUserSchemaFile(existing)
        b == IF u = 0 THEN 0 ELSE findBlock(file, existing[u].name)
    IN  IF t = 0 \/ u = 0 \/ file = << >> \/ b = 0
        THEN file
        ELSE LET toAdd == SelectSeq(auth[t].columns,
                                    LAMBDA col : ~includesFieldKey(file, col.name))
                 fieldsToAdd == [j \in DOMAIN toAdd |-> toAdd[j].name]
             IN  [file EXCEPT ![b].fields = @ \o fieldsToAdd]

\* addAllTablesToUserOmniSchema(authTables, existingSchemas): the file after it.
addAllTablesToUserOmniSchema(file, auth, existing) ==
    LET u == findUserSchemaFile(existing)
    IN  IF u = 0 \/ file = << >>
        THEN file
        ELSE LET toAdd == SelectSeq(auth, LAMBDA table :
                                            ~includesDefineSchema(file, table.name))
                 tablesToAdd ==
                    [i \in DOMAIN toAdd |->
                        Block(toAdd[i].name, "'",
                              [j \in DOMAIN toAdd[i].columns |-> toAdd[i].columns[j].name])]
             IN  file \o tablesToAdd

\* generateAuthOmniSchemaFile(authTables, existingSchemas, includeUser): the
\* content of .omni/auth.schema.ts, stamped with the time of generation.
generateAuthOmniSchemaFile(auth, includeUser, now) ==
    LET kept == SelectSeq(auth, LAMBDA table : table.name # "user" \/ includeUser)
    IN  [generatedOn |-> now,
         blocks |-> [i \in DOMAIN kept |->
                        Block(kept[i].name, "'",
                              [j \in DOMAIN kept[i].columns |-> kept[i].columns[j].name])]]

NoOmniFile == [generatedOn |-> 0, blocks |-> << >>]

\* The application layouts explored: no schema at all, or one file that
\* declares the user table (as `user` or `users`) and perhaps a session table.
UserFieldLists ==
    { << UserField(FieldId, "string") >>,
      << UserField(FieldId, "string"), UserField(FieldUsername, "string") >>,
      << UserField(FieldId, "string"), UserField(FieldName, "json") >> }

AppLayouts ==
    { [schemas |-> << >>, file |-> << >>] }
    \cup
    { [schemas |-> << AppSchema(userName, fields) >>
                   \o (IF withSession
                       THEN << AppSchema("session", << UserField(FieldId, "string") >>) >>
                       ELSE << >>),
       file |-> << Block(userName, quote, [k \in DOMAIN fields |-> fields[k].name]) >>
                \o (IF withSession
                    THEN << Block("session", quote, << FieldId >>) >>
                    ELSE << >>)] :
        userName \in {"user", "users"}, fields \in UserFieldLists,
        withSession \in BOOLEAN, quote \in Quotes }

SyncStrategies == {"none", "hybrid", "separate", "integrated"}

NoChanges == [hasChanges |-> FALSE, newTables |-> << >>, modifiedTables |-> << >>]

NoPass ==
    [n |-> 0, success |-> FALSE, hasChanges |-> FALSE, changes |-> NoChanges,
     before |-> << >>, after |-> << >>, merged |-> FALSE, wroteFiles |-> FALSE,
     migrated |-> FALSE, regenerated |-> FALSE, afterUnchanged |-> FALSE]

NoMutation ==
    [kind |-> "none", previous |-> "none", before |-> << >>, after |-> << >>]

InitSyncVars ==
    /\ \E layout \in AppLayouts :
          /\ existingSchemas = layout.schemas
          /\ userSchemaFile = layout.file
    /\ authOmniFile = NoOmniFile
    /\ syncStrategy \in SyncStrategies
    /\ syncAutoMigrate \in BOOLEAN
    /\ lastPass = NoPass
    /\ unchangedSince = "no pass"
    /\ passes = 0
    /\ mutation = NoMutation
    /\ mutations = 0

IdleSyncVars ==
    /\ existingSchemas = << >>
    /\ userSchemaFile = << >>
    /\ authOmniFile = NoOmniFile
    /\ syncStrategy = "none"
    /\ syncAutoMigrate = FALSE
    /\ lastPass = NoPass
    /\ unchangedSince = "no pass"
    /\ passes = 0
    /\ mutation = NoMutation
    /\ mutations = 0

syncOptions == <<syncStrategy, syncAutoMigrate>>

\* The files after the placement strategy of a pass that found changes.
userFileAfterStrategy(auth, existing) ==
    IF syncStrategy = "hybrid" THEN updateUserOmniSchema(userSchemaFile, auth, existing)
    ELSE IF syncStrategy = "integrated"
    THEN addAllTablesToUserOmniSchema(userSchemaFile, auth, existing)
    ELSE userSchemaFile

omniFileAfterStrategy(auth, now) ==
    IF syncStrategy = "hybrid" THEN generateAuthOmniSchemaFile(auth, FALSE, now)
    ELSE IF syncStrategy = "separate" THEN generateAuthOmniSchemaFile(auth, TRUE, now)
    ELSE authOmniFile

\* sync(existingSchemas, options) runs to its end without an error:
\* generateAuthSchema, parseSchema, detectChanges and, when there are changes,
\* mergeSchemas (in place), the placement strategy and runMigration.
SyncPass ==
    /\ passes < MaxPasses
    /\ authConfig # NoAuthConfig
    /\ LET now == generations + 1
           g == generateAuthSchema(authConfig, metadataFile, generatedSchema, FALSE, now)
           authTables == parseSchema(g.file)
           changes == detectChanges(existingSchemas, authTables)
           merged == IF changes.hasChanges
                     THEN mergeSchemas(existingSchemas, authTables, changes)
                     ELSE existingSchemas
       IN  /\ generatedSchema' = g.file
           /\ metadataFile' = g.meta
           /\ existingSchemas' = merged
           /\ userSchemaFile' = IF changes.hasChanges
                                THEN userFileAfterStrategy(authTables, merged)
                                ELSE userSchemaFile
           /\ authOmniFile' = IF changes.hasChanges
                              THEN omniFileAfterStrategy(authTables, now)
                              ELSE authOmniFile
           /\ lastPass' =
                 [n |-> passes + 1,
                  success |-> TRUE,
                  hasChanges |-> changes.hasChanges,
                  changes |-> changes,
                  before |-> existingSchemas,
                  after |-> merged,
                  merged |-> merged # existingSchemas,
                  wroteFiles |-> \/ userSchemaFile' # userSchemaFile
                                 \/ authOmniFile' # authOmniFile,
                  migrated |-> changes.hasChanges /\ syncAutoMigrate,
                  regenerated |-> g.regenerated,
                  afterUnchanged |-> unchangedSince = "unchanged"]
    /\ generations' = generations + 1
    /\ passes' = passes + 1
    /\ unchangedSince' = "unchanged"
    /\ UNCHANGED <<authConfig, genCall, syncOptions, mutation, mutations>>
    /\ UNCHANGED notGeneratorSync

\* sync(...) catches an error of generateAuthSchema or parseSchema (no config
\* module, failing generation, unreadable file): success false, hasChanges false.
SyncPassFails ==
    /\ passes < MaxPasses
    /\ lastPass' =
          [NoPass EXCEPT !.n = passes + 1,
                         !.before = existingSchemas,
                         !.after = existingSchemas,
                         !.afterUnchanged = (unchangedSince = "unchanged")]
    /\ passes' = passes + 1
    /\ unchangedSince' = IF unchangedSince = "unchanged" THEN "unchanged" ELSE "changed"
    /\ UNCHANGED <<existingSchemas, userSchemaFile, authOmniFile, syncOptions,
                   mutation, mutations>>
    /\ UNCHANGED gvars
    /\ UNCHANGED notGeneratorSync

\* Between two passes the developer changes the auth configuration.
ChangeAuthConfig ==
    /\ passes < MaxPasses
    /\ unchangedSince = "unchanged"
    /\ \E cfg \in AuthConfigs :
          /\ cfg # authConfig
          /\ authConfig' = cfg
    /\ unchangedSince' = "changed"
    /\ UNCHANGED <<metadataFile, generatedSchema, genCall, generations>>
    /\ UNCHANGED <<existingSchemas, userSchemaFile, authOmniFile, syncOptions,
                   lastPass, passes, mutation, mutations>>
    /\ UNCHANGED notGeneratorSync

\* A layout the developer's edits can turn the present files into: the user
\* table keeps its name and the file its quoting style.
EditedLayout(layout) ==
    IF userSchemaFile = << >> THEN TRUE
    ELSE IF layout.file = << >> THEN FALSE
    ELSE /\ layout.file[1].name = userSchemaFile[1].name
         /\ layout.file[1].quote = userSchemaFile[1].quote

\* Between two passes the application schemas are discovered anew from
\* changed schema files.
ChangeAppSchemas ==
    /\ passes < MaxPasses
    /\ unchangedSince = "unchanged"
    /\ \E layout \in AppLayouts :
          /\ EditedLayout(layout)
          /\ layout.schemas # existingSchemas
          /\ existingSchemas' = layout.schemas
          /\ userSchemaFile' = layout.file
    /\ unchangedSince' = "changed"
    /\ UNCHANGED <<authOmniFile, syncOptions, lastPass, passes, mutation, mutations>>
    /\ UNCHANGED gvars
    /\ UNCHANGED notGeneratorSync

NextSync ==
    \/ SyncPass
    \/ SyncPassFails
    \/ ChangeAuthConfig
    \/ ChangeAppSchemas

\* The auth tables a file mutation is given.
currentAuthTables == parseSchema(generateDrizzleSchemaCode(authConfig))

\* updateUserOmniSchema applied to the user schema file.
ApplyUpdateUserOmniSchema ==
    /\ mutations < MaxMutations
    /\ userSchemaFile' =
          updateUserOmniSchema(userSchemaFile, currentAuthTables, existingSchemas)
    /\ mutation' = [kind |-> "updateUser", previous |-> mutation.kind,
                    before |-> userSchemaFile, after |-> userSchemaFile']
    /\ mutations' = mutations + 1
    /\ UNCHANGED <<existingSchemas, authOmniFile, syncOptions, lastPass,
                   unchangedSince, passes>>
    /\ UNCHANGED gvars
    /\ UNCHANGED notGeneratorSync

\* addAllTablesToUserOmniSchema applied to the user schema file.
ApplyAddAllTables ==
    /\ mutations < MaxMutations
    /\ userSchemaFile' =
          addAllTablesToUserOmniSchema(userSchemaFile, currentAuthTables, existingSchemas)
    /\ mutation' = [kind |-> "addAllTables", previous |-> mutation.kind,
                    before |-> userSchemaFile, after |-> userSchemaFile']
    /\ mutations' = mutations + 1
    /\ UNCHANGED <<existingSchemas, authOmniFile, syncOptions, lastPass,
                   unchangedSince, passes>>
    /\ UNCHANGED gvars
    /\ UNCHANGED notGeneratorSync

NextFiles ==
    \/ ApplyUpdateUserOmniSchema
    \/ ApplyAddAllTables

\* The inputs of the file mutations: a configuration and a layout.
InitFilesVars ==
    /\ authConfig \in AuthConfigs
    /\ metadataFile = NoMetadata
    /\ generatedSchema = NoSchemaFile
    /\ genCall = NoGenCall
    /\ generations = 0
    /\ \E layout \in AppLayouts :
          /\ existingSchemas = layout.schemas
          /\ userSchemaFile = layout.file
    /\ authOmniFile = NoOmniFile
    /\ syncStrategy = "none"
    /\ syncAutoMigrate = FALSE
    /\ lastPass = NoPass
    /\ unchangedSince = "no pass"
    /\ passes = 0
    /\ mutation = NoMutation
    /\ mutations = 0

(***************************************************************************)
(* deepEqual (src/src/package/utils/index.ts)                              *)
(***************************************************************************)

\* The longest array, and the most index-like keys an object holds.
MaxLen == 1

\* The objects of the heap, by reference, and the values a slot can hold: a
\* primitive or a reference.  An argument can also be null.
Refs == {"r1", "r2"}
Primitives == {"one"}
Values == Primitives \cup Refs
NullValue == "null"
Arguments == Values \cup {NullValue}

\* Object.keys of an array of n elements: "0", ..., "n-1".
IndexKeys == <<"0", "1", "2", "3">>
ArrayKeys(n) == SubSeq(IndexKeys, 1, n)

\* The keys an object can hold, in the order Object.keys lists them:
\* index-like keys first, then the others.
ObjectKeys == ArrayKeys(MaxLen) \o <<"k">>
KeysIn(S) ==
    LET chosen == SelectSeq([i \in DOMAIN ObjectKeys |-> i], LAMBDA i : i \in S)
    IN  [j \in DOMAIN chosen |-> ObjectKeys[chosen[j]]]

\* What a reference points to: an array, a plain object or a Date.
ArrayNodes ==
    UNION {{[kind |-> "array", keys |-> ArrayKeys(n), vals |-> v, time |-> 0] :
               v \in [1..n -> Values]} : n \in 0..MaxLen}
ObjectNodes ==
    UNION {{[kind |-> "object", keys |-> KeysIn(S), vals |-> v, time |-> 0] :
               v \in [1..Cardinality(S) -> Values]} : S \in SUBSET DOMAIN ObjectKeys}
DateNodes == {[kind |-> "date", keys |-> << >>, vals |-> << >>, time |-> t] : t \in {0, 1}}
Nodes == ArrayNodes \cup ObjectNodes \cup DateNodes

\* keysB.includes(key)
includesKey(keys, key) == \E i \in DOMAIN keys : keys[i] = key

\* a[key], for a key that a holds.
getKey(node, key) ==
    node.vals[CHOOSE i \in DOMAIN node.keys : node.keys[i] = key]

\* The outcome of a deepEqual call: what it returns and the visited set it
\* leaves behind.
Returned(res, seen) == [result |-> res, visited |-> seen]

RECURSIVE deepEqual(_, _, _, _)
RECURSIVE deepEqualItems(_, _, _, _, _)
RECURSIVE deepEqualKeys(_, _, _, _, _)

\* for (let i = 0; i < a.length; i++) if (!deepEqual(a[i], b[i], visited)) return false
deepEqualItems(h, a, b, i, visited) ==
    IF i > Len(h[a].vals) THEN Returned(TRUE, visited \ {a, b})
    ELSE LET r == deepEqual(h, h[a].vals[i], h[b].vals[i], visited)
         IN  IF ~r.result THEN Returned(FALSE, r.visited)
             ELSE deepEqualItems(h, a, b, i + 1, r.visited)

\* for (const key of keysA) if (!keysB.includes(key) || !deepEqual(a[key], b[key], visited)) ...
deepEqualKeys(h, a, b, i, visited) ==
    IF i > Len(h[a].keys) THEN Returned(TRUE, visited \ {a, b})
    ELSE LET key == h[a].keys[i]
         IN  IF ~includesKey(h[b].keys, key) THEN Returned(FALSE, visited \ {a, b})
             ELSE LET r == deepEqual(h, getKey(h[a], key), getKey(h[b], key), visited)
                  IN  IF ~r.result THEN Returned(FALSE, r.visited \ {a, b})
                      ELSE deepEqualKeys(h, a, b, i + 1, r.visited)

\* deepEqual(a, b, visited) on the heap h
deepEqual(h, a, b, visited) ==
    IF a = b THEN Returned(TRUE, visited)
    ELSE IF a \notin Refs \/ b \notin Refs THEN Returned(FALSE, visited)
    ELSE IF h[a].kind = "date" /\ h[b].kind = "date"
         THEN Returned(h[a].time = h[b].time, visited)
    ELSE IF a \in visited \/ b \in visited THEN Returned(FALSE, visited)
    ELSE IF h[a].kind = "array" /\ h[b].kind = "array"
         THEN IF Len(h[a].vals) # Len(h[b].vals)
              THEN Returned(FALSE, visited \cup {a, b})
              ELSE deepEqualItems(h, a, b, 1, visited \cup {a, b})
    ELSE IF Len(h[a].keys) # Len(h[b].keys)
         THEN Returned(FALSE, visited \cup {a, b})
         ELSE deepEqualKeys(h, a, b, 1, visited \cup {a, b})

NoEqualCall == [made |-> FALSE, result |-> FALSE]

InitDeepEqualVars ==
    /\ heap \in [Refs -> Nodes]
    /\ argA \in Arguments
    /\ argB \in Arguments
    /\ equalCall = NoEqualCall

IdleDeepEqualVars ==
    /\ heap = [r \in Refs |-> [kind |-> "object", keys |-> << >>, vals |-> << >>, time |-> 0]]
    /\ argA = NullValue
    /\ argB = NullValue
    /\ equalCall = NoEqualCall

\* deepEqual(a, b) is called with a fresh visited set.
DeepEqualCall ==
    /\ ~equalCall.made
    /\ equalCall' = [made |-> TRUE, result |-> deepEqual(heap, argA, argB, {}).result]
    /\ UNCHANGED <<heap, argA, argB>>
    /\ UNCHANGED notDeepEqual

NextDeepEqual == DeepEqualCall

(***************************************************************************)
(* parsePagination (src/src/package/helpers.ts)                            *)
(***************************************************************************)

\* The longest value of a search parameter explored.
MaxParamLen == 3

\* The characters a parameter value is written with, and the digits' values.
ParamChars == {"0", "9", "-", "a"}
Digits == [c \in {"0", "1", "2", "9"} |->
              IF c = "0" THEN 0 ELSE IF c = "1" THEN 1 ELSE IF c = "2" THEN 2 ELSE 9]
IsDigit(c) == c \in DOMAIN Digits

\* url.searchParams.get(name): null when the parameter is missing, else
\* its text.
MissingParam == [present |-> FALSE, text |-> << >>]
SearchParams ==
    {MissingParam} \cup
    UNION {{[present |-> TRUE, text |-> t] : t \in [1..n -> ParamChars]} :
              n \in 0..MaxParamLen}

\* A JavaScript number: NaN, or an integer.
NaN == [nan |-> TRUE, n |-> 0]
Number(n) == [nan |-> FALSE, n |-> n]

\* The value of a run of digits read after the value acc.
RECURSIVE digitsValue(_, _, _)
digitsValue(text, i, acc) ==
    IF i > Len(text) \/ ~IsDigit(text[i]) THEN acc
    ELSE digitsValue(text, i + 1, acc * 10 + Digits[text[i]])

\* parseInt(text): an optional sign, then the longest run of digits; NaN
\* when there is no digit where the number should begin.
parseInt(text) ==
    LET negative == Len(text) > 0 /\ text[1] = "-"
        start == IF negative THEN 2 ELSE 1
    IN  IF start > Len(text) \/ ~IsDigit(text[start]) THEN NaN
        ELSE Number((IF negative THEN -1 ELSE 1) * digitsValue(text, start, 0))

\* value || fallback, for a string or null: null and "" are falsy.
orDefault(param, fallback) ==
    IF param.present /\ Len(param.text) > 0 THEN param.text ELSE fallback

\* Math.max(a, b) and Math.min(a, b): NaN when either argument is NaN.
mathMax(a, b) == IF a.nan \/ b.nan THEN NaN ELSE IF a.n >= b.n THEN a ELSE b
mathMin(a, b) == IF a.nan \/ b.nan THEN NaN ELSE IF a.n <= b.n THEN a ELSE b

MinPage == 1
MaxLimit == 100
DefaultPageText == <<"1">>
DefaultLimitText == <<"2", "0">>

\* parsePagination(url)
parsePagination(pageText, limitText) ==
    [page |-> mathMax(Number(MinPage), parseInt(orDefault(pageText, DefaultPageText))),
     limit |-> mathMin(Number(MaxLimit), parseInt(orDefault(limitText, DefaultLimitText)))]

NoPagination == [made |-> FALSE, page |-> NaN, limit |-> NaN]

InitPaginationVars ==
    /\ pageParam \in SearchParams
    /\ limitParam \in SearchParams
    /\ pagination = NoPagination

IdlePaginationVars ==
    /\ pageParam = MissingParam
    /\ limitParam = MissingParam
    /\ pagination = NoPagination

\* parsePagination(url) is called.
ParsePagination ==
    /\ ~pagination.made
    /\ pagination' = [made |-> TRUE,
                      page |-> parsePagination(pageParam, limitParam).page,
                      limit |-> parsePagination(pageParam, limitParam).limit]
    /\ UNCHANGED <<pageParam, limitParam>>
    /\ UNCHANGED notPagination

NextPagination == ParsePagination

(***************************************************************************)
(* The schema file watcher and incremental regeneration                    *)
(* (src/unnamed/part_007)                                                  *)
(***************************************************************************)

\* How many watcher events are explored.
MaxEvents == 2

\* The schema files the watched patterns match, in the order glob lists
\* them, and the name of the schema each one defines.
SchemaFiles == <<"user.schema.ts", "post.schema.ts">>
SchemaNameIn == [f \in {"user.schema.ts", "post.schema.ts"} |->
                    IF f = "user.schema.ts" THEN "user" ELSE "post"]
AbsentFile == 0

\* config.output.drizzle.format and config.output.drizzle.path
OutputFormats == {"single-file", "multi-file"}
SingleFilePath == "schema.ts"
OutputPaths == {SingleFilePath, "user", "post"}

\* parser.parseSchemas(file): the schemas of a file whose content is at
\* the given version.
parseSchemas(file, version) ==
    <<[name |-> SchemaNameIn[file], filePath |-> file, version |-> version]>>

\* schemas.find(s => s.name === name)
hasSchemaNamed(schemas, name) == \E i \in DOMAIN schemas : schemas[i].name = name

\* The loop of discoverSchemas over one file's schemas: a schema whose name
\* was already found is skipped.
RECURSIVE pushSchemas(_, _, _)
pushSchemas(schemas, fileSchemas, i) ==
    IF i > Len(fileSchemas) THEN schemas
    ELSE pushSchemas(IF hasSchemaNamed(schemas, fileSchemas[i].name) THEN schemas
                     ELSE Append(schemas, fileSchemas[i]),
                     fileSchemas, i + 1)

\* discoverSchemas(config) on the files the disk holds.
RECURSIVE discoverFrom(_, _, _)
discoverFrom(disk, i, schemas) ==
    IF i > Len(SchemaFiles) THEN schemas
    ELSE LET file == SchemaFiles[i]
         IN  discoverFrom(disk, i + 1,
                 IF disk[file] = AbsentFile THEN schemas
                 ELSE pushSchemas(schemas, parseSchemas(file, disk[file]), 1))
discoverSchemas(disk) == discoverFrom(disk, 1, << >>)

\* schemasRef.current = newSchemas: another array takes the place.
spliceIntoNewArray(arr, start, deleteCount, items) ==
    [ref |-> arr.ref + 1, items |-> items]

\* arr.splice(start, deleteCount, ...items): the same array, changed.
splice(arr, start, deleteCount, items) ==
    [ref |-> arr.ref,
     items |-> SubSeq(arr.items, 1, start) \o items
               \o SubSeq(arr.items, start + deleteCount + 1, Len(arr.items))]

\* A generated file: absent, or the schemas whose definitions it holds.
NoOutput == [exists |-> FALSE, schemas |-> << >>]
Output(schemas) == [exists |-> TRUE, schemas |-> schemas]

\* changedFiles of generateAllSchemas: not given, or a list of paths.
AllFiles == {"*"}

\* schemas.filter(schema => schema.filePath && changedFiles.includes(schema.filePath))
schemasToProcess(schemas, changedFiles) ==
    IF changedFiles = AllFiles THEN schemas
    ELSE SelectSeq(schemas, LAMBDA s : s.filePath \in changedFiles)

\* DrizzleGenerator.generateFiles(schemas, outputConfig): one file with
\* every schema given, or one file per schema.
generateFiles(schemas, format) ==
    IF format = "single-file"
    THEN <<[path |-> SingleFilePath, content |-> Output(schemas)]>>
    ELSE [i \in DOMAIN schemas |->
             [path |-> schemas[i].name, content |-> Output(<<schemas[i]>>)]]

\* generateAllSchemas(schemas, config, changedFiles)
generateAllSchemas(schemas, format, changedFiles) ==
    LET toProcess == schemasToProcess(schemas, changedFiles)
    IN  IF Len(toProcess) = 0 THEN << >> ELSE generateFiles(toProcess, format)

\* generateSchemaFiles(schemas, config, changedFiles): the outputs it goes
\* on to write.
generateSchemaFiles(schemas, format, changedFiles) ==
    IF Len(schemas) = 0 THEN << >> ELSE generateAllSchemas(schemas, format, changedFiles)

\* writeGeneratedFile(output) for each output, in order.
RECURSIVE writeOutputs(_, _, _)
writeOutputs(files, outputs, i) ==
    IF i > Len(outputs) THEN files
    ELSE writeOutputs([files EXCEPT ![outputs[i].path] = outputs[i].content],
                      outputs, i + 1)

EventKinds == {"change", "add", "unlink"}

\* configResolved and buildStart have run: schemasRef.current holds the
\* first discovery and every artifact was generated from it.
InitWatcherVars ==
    /\ diskFiles \in [{"user.schema.ts", "post.schema.ts"} -> {AbsentFile, 1}]
    /\ outputFormat \in OutputFormats
    /\ schemasRef = [ref |-> 1, items |-> discoverSchemas(diskFiles)]
    /\ generatedFiles =
           writeOutputs([p \in OutputPaths |-> NoOutput],
                        generateSchemaFiles(discoverSchemas(diskFiles), outputFormat, AllFiles), 1)
    /\ handlers = << >>

IdleWatcherVars ==
    /\ diskFiles = [f \in {"user.schema.ts", "post.schema.ts"} |-> AbsentFile]
    /\ outputFormat = "single-file"
    /\ schemasRef = [ref |-> 1, items |-> << >>]
    /\ generatedFiles = [p \in OutputPaths |-> NoOutput]
    /\ handlers = << >>

\* A handler that has just been called: its discovery is in flight.
NewHandler(kind, file) ==
    [kind |-> kind, file |-> file, pc |-> "discovering",
     concurrent |-> \E j \in DOMAIN handlers :
                       handlers[j].pc \in {"discovering", "resuming"},
     refAtEvent |-> schemasRef.ref, discovered |-> << >>,
     after |-> [ref |-> 0, items |-> << >>],
     outputs |-> << >>, written |-> NoOutput]

\* A schema file is edited, created or removed, and chokidar calls the
\* handler of the event.
WatcherEvent ==
    /\ Len(handlers) < MaxEvents
    /\ \E kind \in EventKinds, file \in DOMAIN diskFiles :
          /\ kind = "add" <=> diskFiles[file] = AbsentFile
          /\ diskFiles' = [diskFiles EXCEPT ![file] =
                              IF kind = "unlink" THEN AbsentFile
                              ELSE Len(handlers) + 2]
          /\ handlers' = Append(handlers, NewHandler(kind, file))
    /\ UNCHANGED <<outputFormat, schemasRef, generatedFiles>>
    /\ UNCHANGED notWatcher

\* The discovery of a handler reads the files.
DiscoveryReads ==
    /\ \E i \in DOMAIN handlers :
          /\ handlers[i].pc = "discovering"
          /\ handlers' = [handlers EXCEPT ![i].pc = "resuming",
                                          ![i].discovered = discoverSchemas(diskFiles)]
    /\ UNCHANGED <<diskFiles, outputFormat, schemasRef, generatedFiles>>
    /\ UNCHANGED notWatcher

\* The handler resumes after `await discoverSchemas`: it splices the result
\* into schemasRef.current and, for a change event, starts regeneration of
\* the changed file's artifacts.
HandlerSplices ==
    /\ \E i \in DOMAIN handlers :
          /\ handlers[i].pc = "resuming"
          /\ LET h == handlers[i]
                 current == splice(schemasRef, 0, Len(schemasRef.items), h.discovered)
                 outputs == generateSchemaFiles(current.items, outputFormat, {h.file})
             IN  /\ schemasRef' = current
                 /\ handlers' = [handlers EXCEPT
                        ![i].after = current,
                        ![i].outputs = IF h.kind = "change" THEN outputs ELSE << >>,
                        ![i].pc = IF h.kind = "change" /\ Len(outputs) > 0
                                  THEN "writing" ELSE "done"]
    /\ UNCHANGED <<diskFiles, outputFormat, generatedFiles>>
    /\ UNCHANGED notWatcher

\* The outputs of a change handler are written.
HandlerWrites ==
    /\ \E i \in DOMAIN handlers :
          /\ handlers[i].pc = "writing"
          /\ generatedFiles' = writeOutputs(generatedFiles, handlers[i].outputs, 1)
          /\ handlers' = [handlers EXCEPT
                 ![i].pc = "done",
                 ![i].written = generatedFiles'[handlers[i].outputs[1].path]]
    /\ UNCHANGED <<diskFiles, outputFormat, schemasRef>>
    /\ UNCHANGED notWatcher

NextWatcher ==
    \/ WatcherEvent
    \/ DiscoveryReads
    \/ HandlerSplices
    \/ HandlerWrites

(***************************************************************************)
(* AuthSchemaSync.runCommand (src/src/package/runtime/auth/auth-sync.ts)   *)
(***************************************************************************)

\* The delay of the timer runCommand sets, in seconds, and how many `data`
\* events of the child are explored.
CommandTimeout == 30
MaxOutputs == 2

\* The exit codes a child closes with.
ExitCodes == {0, 1}

\* A promise is settled once: later calls of resolve and reject do nothing.
settle(promise, settled) == IF promise = "pending" THEN settled ELSE promise

\* child.on('close', code => code === 0 ? resolve(...) : reject(...))
onClose(promise, code) ==
    settle(promise, IF code = 0 THEN "resolved" ELSE "rejected: command failed")

\* child.on('error', reject)
onError(promise) == settle(promise, "rejected: spawn error")

\* A timer callback that kills the child and leaves the promise alone.
onTimeoutKillOnly(promise) == promise

\* The timer callback, after child.kill(): reject(new Error('Command timed out ...'))
onTimeout(promise) == settle(promise, "rejected: timed out")

InitCommandVars ==
    /\ commandPc = "idle"
    /\ child = "none"
    /\ childOutputs = 0
    /\ commandPromise = "none"
    /\ elapsed = 0
    /\ killSignals = 0
    /\ childAtTimeout = "none"

IdleCommandVars == InitCommandVars

\* runCommand(command, args): the child is spawned, the listeners are
\* attached and the timer is set; the promise is returned pending.  A
\* command that cannot be spawned gives a child that will emit `error`.
RunCommand ==
    /\ commandPc = "idle"
    /\ commandPc' = "started"
    /\ child' \in {"running", "spawn failed"}
    /\ commandPromise' = "pending"
    /\ UNCHANGED <<childOutputs, elapsed, killSignals, childAtTimeout>>
    /\ UNCHANGED notCommand

\* child.stdout / child.stderr emit `data`.
ChildData ==
    /\ child \in {"running", "killed"}
    /\ childOutputs < MaxOutputs
    /\ childOutputs' = childOutputs + 1
    /\ UNCHANGED <<commandPc, child, commandPromise, elapsed, killSignals, childAtTimeout>>
    /\ UNCHANGED notCommand

\* The child ends by itself and `close` is emitted with its exit code.
ChildCloses ==
    /\ child = "running"
    /\ \E code \in ExitCodes : commandPromise' = onClose(commandPromise, code)
    /\ child' = "closed"
    /\ UNCHANGED <<commandPc, childOutputs, elapsed, killSignals, childAtTimeout>>
    /\ UNCHANGED notCommand

\* The child that was sent the kill signal ends: `close` is emitted with
\* code null.
KilledChildCloses ==
    /\ child = "killed"
    /\ commandPromise' = onClose(commandPromise, 1)
    /\ child' = "closed"
    /\ UNCHANGED <<commandPc, childOutputs, elapsed, killSignals, childAtTimeout>>
    /\ UNCHANGED notCommand

\* The child that could not be spawned emits `error`.
ChildError ==
    /\ child = "spawn failed"
    /\ commandPromise' = onError(commandPromise)
    /\ child' = "never started"
    /\ UNCHANGED <<commandPc, childOutputs, elapsed, killSignals, childAtTimeout>>
    /\ UNCHANGED notCommand

\* A second passes.  The timer callback runs when its delay is over, before
\* more time passes.
CommandTick ==
    /\ commandPc = "started"
    /\ elapsed < CommandTimeout
    /\ elapsed' = elapsed + 1
    /\ UNCHANGED <<commandPc, child, childOutputs, commandPromise, killSignals, childAtTimeout>>
    /\ UNCHANGED notCommand

\* The timer callback: child.kill(), then reject with the timeout error.
\* The timer is never cleared, so it also runs after the child has closed.
CommandTimerFires ==
    /\ commandPc = "started"
    /\ elapsed = CommandTimeout
    /\ commandPc' = "timer ran"
    /\ childAtTimeout' = child
    /\ child' = IF child = "running" THEN "killed" ELSE child
    /\ killSignals' = IF child = "running" THEN killSignals + 1 ELSE killSignals
    /\ commandPromise' = onTimeout(commandPromise)
    /\ UNCHANGED <<childOutputs, elapsed>>
    /\ UNCHANGED notCommand

NextCommand ==
    \/ RunCommand
    \/ ChildData
    \/ ChildCloses
    \/ KilledChildCloses
    \/ ChildError
    \/ CommandTick
    \/ CommandTimerFires

(***************************************************************************)
(* Specifications                                                          *)
(***************************************************************************)

InitHandler == InitHandlerVars /\ IdleModelVars /\ IdleQueryVars
    /\ IdleLoaderVars /\ IdleDatabaseVars /\ IdleRunnerVars /\ IdlePluginVars
    /\ IdleGeneratorVars /\ IdleChunkVars /\ IdleSyncVars /\ IdleDeepEqualVars
    /\ IdlePaginationVars /\ IdleWatcherVars /\ IdleCommandVars

SpecHandler == InitHandler /\ [][NextHandler]_vars

InitModel == InitModelVars /\ IdleHandlerVars /\ IdleQueryVars /\ IdleLoaderVars
    /\ IdleDatabaseVars /\ IdleRunnerVars /\ IdlePluginVars /\ IdleGeneratorVars
    /\ IdleChunkVars /\ IdleSyncVars /\ IdleDeepEqualVars /\ IdlePaginationVars
    /\ IdleWatcherVars /\ IdleCommandVars

SpecModel == InitModel /\ [][NextModel]_vars

InitQuery == InitQueryVars /\ IdleHandlerVars /\ IdleModelVars /\ IdleLoaderVars
    /\ IdleDatabaseVars /\ IdleRunnerVars /\ IdlePluginVars /\ IdleGeneratorVars
    /\ IdleChunkVars /\ IdleSyncVars /\ IdleDeepEqualVars /\ IdlePaginationVars
    /\ IdleWatcherVars /\ IdleCommandVars

SpecQuery == InitQuery /\ [][NextQuery]_vars

InitLoader == InitLoaderVars /\ IdleHandlerVars /\ IdleModelVars
    /\ IdleQueryVars /\ IdleDatabaseVars /\ IdleRunnerVars /\ IdlePluginVars
    /\ IdleGeneratorVars /\ IdleChunkVars /\ IdleSyncVars /\ IdleDeepEqualVars
    /\ IdlePaginationVars /\ IdleWatcherVars /\ IdleCommandVars

SpecLoader == InitLoader /\ [][NextLoader]_vars

InitDatabase == InitDatabaseVars /\ InitRunnerVars /\ IdleHandlerVars
    /\ IdleModelVars /\ IdleQueryVars /\ IdleLoaderVars /\ IdlePluginVars
    /\ IdleGeneratorVars /\ IdleChunkVars /\ IdleSyncVars /\ IdleDeepEqualVars
    /\ IdlePaginationVars /\ IdleWatcherVars /\ IdleCommandVars

SpecDatabase == InitDatabase /\ [][NextDatabase]_vars

InitPlugin == InitPluginVars /\ IdleHandlerVars /\ IdleModelVars
    /\ IdleQueryVars /\ IdleLoaderVars /\ IdleDatabaseVars /\ IdleRunnerVars
    /\ IdleGeneratorVars /\ IdleChunkVars /\ IdleSyncVars /\ IdleDeepEqualVars
    /\ IdlePaginationVars /\ IdleWatcherVars /\ IdleCommandVars

SpecPlugin == InitPlugin /\ [][NextPlugin]_vars

InitGenerator == InitGeneratorVars /\ IdleHandlerVars /\ IdleModelVars
    /\ IdleQueryVars /\ IdleLoaderVars /\ IdleDatabaseVars /\ IdleRunnerVars
    /\ IdlePluginVars /\ IdleChunkVars /\ IdleSyncVars /\ IdleDeepEqualVars
    /\ IdlePaginationVars /\ IdleWatcherVars /\ IdleCommandVars

SpecGenerator == InitGenerator /\ [][NextGenerator]_vars

InitChunk == InitChunkVars /\ IdleHandlerVars /\ IdleModelVars /\ IdleQueryVars
    /\ IdleLoaderVars /\ IdleDatabaseVars /\ IdleRunnerVars /\ IdlePluginVars
    /\ IdleGeneratorVars /\ IdleSyncVars /\ IdleDeepEqualVars
    /\ IdlePaginationVars /\ IdleWatcherVars /\ IdleCommandVars

SpecChunk == InitChunk /\ [][NextChunk]_vars /\ WF_vars(NextChunk)

InitSync == InitGeneratorVars /\ InitSyncVars /\ IdleHandlerVars
    /\ IdleModelVars /\ IdleQueryVars /\ IdleLoaderVars /\ IdleDatabaseVars
    /\ IdleRunnerVars /\ IdlePluginVars /\ IdleChunkVars /\ IdleDeepEqualVars
    /\ IdlePaginationVars /\ IdleWatcherVars /\ IdleCommandVars

SpecSync == InitSync /\ [][NextSync]_vars

InitFiles == InitFilesVars /\ IdleHandlerVars /\ IdleModelVars /\ IdleQueryVars
    /\ IdleLoaderVars /\ IdleDatabaseVars /\ IdleRunnerVars /\ IdlePluginVars
    /\ IdleChunkVars /\ IdleDeepEqualVars /\ IdlePaginationVars
    /\ IdleWatcherVars /\ IdleCommandVars

SpecFiles == InitFiles /\ [][NextFiles]_vars

InitDeepEqual == InitDeepEqualVars /\ IdleHandlerVars /\ IdleModelVars
    /\ IdleQueryVars /\ IdleLoaderVars /\ IdleDatabaseVars /\ IdleRunnerVars
    /\ IdlePluginVars /\ IdleGeneratorVars /\ IdleChunkVars /\ IdleSyncVars
    /\ IdlePaginationVars /\ IdleWatcherVars /\ IdleCommandVars

SpecDeepEqual == InitDeepEqual /\ [][NextDeepEqual]_vars

InitPagination == InitPaginationVars /\ IdleHandlerVars /\ IdleModelVars
    /\ IdleQueryVars /\ IdleLoaderVars /\ IdleDatabaseVars /\ IdleRunnerVars
    /\ IdlePluginVars /\ IdleGeneratorVars /\ IdleChunkVars /\ IdleSyncVars
    /\ IdleDeepEqualVars /\ IdleWatcherVars /\ IdleCommandVars

SpecPagination == InitPagination /\ [][NextPagination]_vars

InitWatcher == InitWatcherVars /\ IdleHandlerVars /\ IdleModelVars
    /\ IdleQueryVars /\ IdleLoaderVars /\ IdleDatabaseVars /\ IdleRunnerVars
    /\ IdlePluginVars /\ IdleGeneratorVars /\ IdleChunkVars /\ IdleSyncVars
    /\ IdleDeepEqualVars /\ IdlePaginationVars /\ IdleCommandVars

SpecWatcher == InitWatcher /\ [][NextWatcher]_vars

InitCommand == InitCommandVars /\ IdleHandlerVars /\ IdleModelVars
    /\ IdleQueryVars /\ IdleLoaderVars /\ IdleDatabaseVars /\ IdleRunnerVars
    /\ IdlePluginVars /\ IdleGeneratorVars /\ IdleChunkVars /\ IdleSyncVars
    /\ IdleDeepEqualVars /\ IdlePaginationVars /\ IdleWatcherVars

SpecCommand == InitCommand /\ [][NextCommand]_vars /\ WF_vars(CommandTick) /\ WF_vars(CommandTimerFires)

(***************************************************************************)
(* Claims                                                                  *)
(***************************************************************************)
\* What a request through the chain for hs must execute: every hook's
\* pre-resolve logic in list order, the user handle, SvelteKit's resolve, and
\* then the post-resolve logic innermost first.
ExpectedTrace(hs, user) ==
    LET n == Len(hs) IN
        [i \in 1..n |-> Pre(HookLink(i, hs[i]))]
        \o (IF user THEN <<Pre(UserLink)>> ELSE <<>>)
        \o <<Pre(ResolveLink)>>
        \o (IF user THEN <<Post(UserLink)>> ELSE <<>>)
        \o [i \in 1..n |-> Post(HookLink(n + 1 - i, hs[n + 1 - i]))]

IsPrefix(s, t) == Len(s) <= Len(t) /\ s = SubSeq(t, 1, Len(s))

C2_CleanSaveIssuesNoUpdate ==
    [][(pc = "idle" /\ exists /\ attributes = original /\ saves' = saves + 1)
         => (pc' = "idle" /\ result' = "unchanged" /\ writes' = writes)]_vars

\* C3: right after the insert or update of a save() has succeeded, original
\* equals attributes, and the dirty set computed there is empty.
C3_SyncedAfterWrite ==
    pc \in {"created", "updated"} =>
        /\ original = attributes
        /\ getDirtyAttributes(attributes, DateRef(clock + 1)) = NoRow

\* An insert and then an update have succeeded on a model whose hooks hash
\* the password.
C3_Witness ==
    /\ pc = "updated"
    /\ hashHook
    /\ Len(writes) = 2
    /\ writes[1].op = "insert"
    /\ writes[2].op = "update"

\* The insert payload cannot pass validation.create: the name is missing or
\* empty, or the password is missing or shorter than six characters.
C10_FailsCreateValidation(attrs) ==
    \/ attrs["name"] \in {Undefined, Str("")}
    \/ attrs["password"] \in {Undefined, Str(""), Str("pw")}

\* C10: save() of a new model whose insert payload fails validation.create
\* ends with a validation error before a `creating` hook runs and without an
\* INSERT, and exists stays false.
C10_InvalidInsertRejected ==
    [][(pc = "idle" /\ ~exists /\ saves' = saves + 1
          /\ C10_FailsCreateValidation(attributes'))
         => /\ pc' = "idle"
            /\ result' = "validation_error"
            /\ ~exists'
            /\ writes' = writes
            /\ dbRow' = dbRow
            /\ hookLog' = hookLog]_vars

\* A save() of a new model with an empty name has been rejected, after an
\* earlier save() of the same instance got as far as its hooks.
C10_Witness ==
    /\ pc = "idle"
    /\ result = "validation_error"
    /\ ~exists
    /\ attributes["name"] = Str("")
    /\ hookLog = <<"creating">>
    /\ writes = <<>>

\* The condition `column = value`.
EqualityCondition(column, value) == [fn |-> "eq", column |-> column, value |-> value]

\* C8: a where(column, value) call with two arguments, on a builder or through
\* the static Model.where, applies the equality condition column = value, the
\* one where(column, '=', value) builds.
C8_TwoArgWhereIsEquality ==
    \A i \in DOMAIN calls :
        (calls[i].method = "where" /\ calls[i].call.argc = 2 /\ calls[i].applied > 0)
            => /\ wheres[calls[i].applied]
                    = EqualityCondition(calls[i].call.column, calls[i].call.a2)
               /\ wheres[calls[i].applied]
                    = whereCondition(Call3(calls[i].call.column, "=", calls[i].call.a2))

\* C9: two whereAny calls that describe the same predicate, in whichever of
\* the three forms, add the same OR-group to the query.
C9_WhereAnyFormsAgree ==
    \A i, j \in DOMAIN calls :
        (/\ calls[i].method = "whereAny" /\ calls[i].applied > 0
         /\ calls[j].method = "whereAny" /\ calls[j].applied > 0
         /\ calls[i].pred = calls[j].pred)
            => wheres[calls[i].applied] = wheres[calls[j].applied]

\* C4: loading one relation, of whatever type, for the list of owning models
\* takes at most two queries, however many owning models there are.
C4_AtMostTwoQueriesPerRelation ==
    \A i \in DOMAIN loadQueries : loadQueries[i] <= 2

\* A manyToMany relation has been loaded for two owning models with its two
\* queries.
C4_Witness ==
    /\ terminal = "get"
    /\ requested = <<"roles">>
    /\ Len(got) = 2
    /\ loadQueries = <<2>>
    /\ got[1].relations["roles"].items # <<>>

\* C5: a get() that was asked to eager-load a relation name missing from the
\* relationships map fails, whatever rows the query returned.
C5_UndefinedRelationFails ==
    (terminal = "get" /\ \E i \in DOMAIN requested : requested[i] \notin RelationNames)
        => failed

\* C6: with one user and two posts referring to it, Post.with(['author']).get()
\* returns two posts, each with relations.author an instance whose id is the
\* user's id.
C6_AuthorLoadedWithId ==
    (/\ terminal = "get"
     /\ requested = <<"author">>
     /\ related = <<NoKey>>
     /\ owners = <<1, 1>>)
        => /\ ~failed
           /\ Len(got) = 2
           /\ \A i \in DOMAIN got :
                 /\ got[i].relations["author"].state = "one"
                 /\ got[i].relations["author"].items[1].id = 1

\* C7: the instance first() returns carries the requested relations just as
\* the instance get() returns for the same row does.
C7_FirstLoadsRelations ==
    (/\ terminal = "first"
     /\ got # <<>>
     /\ ~getModels(Limit1(OwnerRows), requested).error)
        => got = getModels(Limit1(OwnerRows), requested).models

\* C11: getDatabase() called in a process in which configureDatabase was
\* never called fails with the initialization error instead of returning a
\* handle.
C11_GetDatabaseBeforeConfigureFails ==
    (dbCall.op = "getDatabase" /\ configures = 0) => dbCall.threw

\* C12: when the up() of the k-th pending migration fails, runMigrations has
\* recorded exactly the k-1 migrations before it, has invoked up() on no
\* later one, and throws that up()'s error to its caller.
C12_FailedUpAbortsBatch ==
    upFailedAt # 0 =>
        /\ runnerPc = "threw"
        /\ runnerError = [kind |-> "up", name |-> pendingMigrations[upFailedAt]]
        /\ ledger = ledgerAtStart \o SubSeq(pendingMigrations, 1, upFailedAt - 1)
        /\ upInvoked = SubSeq(pendingMigrations, 1, upFailedAt)

\* The second of three pending migrations failed.
C12_Witness ==
    /\ upFailedAt = 2
    /\ Len(pendingMigrations) = 3
    /\ runnerPc = "threw"

\* C13: one plugin object starts the migration step (runMigrations) at most
\* once, however often and however closely together its configResolved and
\* buildStart hooks are invoked.
C13_MigrationStartedAtMostOnce ==
    \A i \in DOMAIN plugins : plugins[i].starts <= 1

\* C14: a run under strategy migrate that completed has left the current
\* schema snapshot in the snapshot file, the first run (no previous snapshot)
\* included.
C14_SnapshotPersistedAfterMigrate ==
    \A c \in DOMAIN buildStarts :
        buildStarts[c].outcome = "migrated" =>
            buildStarts[c].persisted = buildStarts[c].current

\* C15: whatever the migration step throws, buildStart completes normally.
C15_BuildStartNeverThrows ==
    \A c \in DOMAIN buildStarts : buildStarts[c].pc # "threw"

\* A buildStart whose runMigrations threw has returned.
C15_Witness ==
    \E c \in DOMAIN buildStarts :
        /\ buildStarts[c].outcome = "threw"
        /\ buildStarts[c].pc = "returned"

\* C19: a generateAuthSchema call that completes has rewritten the auth
\* schema file exactly when force-regeneration was requested or the stored
\* config hash was missing or differed from the hash of the current config;
\* after a regeneration the stored hash is the hash of the config used.
C19_RegeneratesIffHashStale ==
    (genCall.op = "generateAuthSchema" /\ ~genCall.threw) =>
        /\ genCall.regenerated <=>
              \/ genCall.force
              \/ genCall.before.kind # "json"
              \/ genCall.before.configHash # hashAuthConfig(genCall.config)
        /\ genCall.regenerated =>
              /\ genCall.after.kind = "json"
              /\ genCall.after.configHash = hashAuthConfig(genCall.config)

\* A call without force that regenerated because the stored hash differed.
C19_Witness ==
    /\ genCall.op = "generateAuthSchema"
    /\ ~genCall.threw
    /\ ~genCall.force
    /\ genCall.regenerated
    /\ genCall.before.kind = "json"
    /\ genCall.before.configHash # hashAuthConfig(genCall.config)


\* C28: whenever generateAuthSchema returns without error, the generated
\* auth schema file exists on disk, whatever the schema file and the
\* metadata file were before the call.
C28_SchemaFileExistsAfterGenerate ==
    [][(generations' = generations + 1 /\ ~genCall'.threw)
         => generatedSchema' # NoSchemaFile]_vars
\* The pages fetched so far that held rows.
NonEmptyPages ==
    SelectSeq([i \in DOMAIN fetched |-> fetched[i].rows], LAMBDA rows : Len(rows) > 0)

C20_PagesInOrder ==
    \A i \in DOMAIN fetched :
        /\ fetched[i].page = i
        /\ fetched[i].rows = pageOfRows(resultRows, (i - 1) * chunkSize, chunkSize)

C20_CallbackBeforeNextFetch ==
    /\ \A i \in DOMAIN batches : Len(batches[i]) > 0
    /\ IF chunkPc = "callback"
       THEN batches = SubSeq(NonEmptyPages, 1, Len(NonEmptyPages) - 1)
       ELSE batches = NonEmptyPages

C20_StopsAfterFirstShortPage ==
    /\ \A i \in DOMAIN fetched : i < Len(fetched) => Len(fetched[i].rows) = chunkSize
    /\ chunkPc = "done" => Len(fetched[Len(fetched)].rows) < chunkSize

\* C20: chunk(size, callback) terminates on every finite result set; it
\* fetches pages 1, 2, ... in order, awaits callback on each non-empty page
\* before it fetches the next, never calls callback with an empty page, and
\* stops after the first page that holds fewer than size rows.
C20_ChunkTerminates ==
    /\ [](C20_PagesInOrder /\ C20_CallbackBeforeNextFetch /\ C20_StopsAfterFirstShortPage)
    /\ <>(chunkPc \in {"done", "threw"})

\* The result set is a multiple of the page size: two full pages went to
\* the callback and a third, empty page ended the loop.
C20_Witness ==
    /\ chunkPc = "done"
    /\ Len(batches) = 2
    /\ Len(fetched) = 3
    /\ Len(fetched[3].rows) = 0

\* C16: a sync pass that follows a successful pass, with the auth
\* configuration and the application schemas as that pass left them, reports
\* hasChanges false and merges nothing, writes no file and runs no migration.
C16_SecondPassIsNoOp ==
    lastPass.afterUnchanged =>
        /\ ~lastPass.hasChanges
        /\ ~lastPass.merged
        /\ ~lastPass.wroteFiles
        /\ ~lastPass.migrated
        /\ ~lastPass.regenerated

\* The second of two passes in a row succeeded, after a first that merged.
C16_Witness ==
    /\ lastPass.n = 2
    /\ lastPass.afterUnchanged
    /\ lastPass.success
    /\ lastPass.before # << >>
    /\ \E i \in DOMAIN lastPass.before : lastPass.before[i].hasAuthFields

\* The names of the fields and of the tables a schema file declares.
DeclaredFields(file) ==
    UNION {{file[b].fields[k] : k \in DOMAIN file[b].fields} : b \in DOMAIN file}

DeclaredTables(file) == {file[b].name : b \in DOMAIN file}

\* How often a table, and a field of a block, is declared.
TableCount(file, name) == Cardinality({b \in DOMAIN file : file[b].name = name})

FieldCount(block, name) ==
    Cardinality({k \in DOMAIN block.fields : block.fields[k] = name})

\* The file mutation had a target: the user schema file was found (and, for
\* the splice, the user table's block and the auth user table).
MutationHadTarget ==
    LET u == findUserSchemaFile(existingSchemas)
    IN  /\ u # 0
        /\ mutation.before # << >>
        /\ mutation.kind = "updateUser" =>
              /\ findBlock(mutation.before, existingSchemas[u].name) # 0
              /\ findTable(currentAuthTables, "user") # 0

C17_NeverDuplicates ==
    /\ mutation.kind = "updateUser" =>
          \A b \in DOMAIN mutation.before :
              \A name \in DeclaredFields(mutation.before) :
                  FieldCount(mutation.after[b], name)
                      = FieldCount(mutation.before[b], name)
    /\ mutation.kind = "addAllTables" =>
          \A name \in DeclaredTables(mutation.before) :
              TableCount(mutation.after, name) = TableCount(mutation.before, name)

C17_AddsEveryMissing ==
    /\ mutation.kind = "updateUser" =>
          LET t == findTable(currentAuthTables, "user")
          IN  \A j \in DOMAIN currentAuthTables[t].columns :
                  currentAuthTables[t].columns[j].name \in DeclaredFields(mutation.after)
    /\ mutation.kind = "addAllTables" =>
          \A i \in DOMAIN currentAuthTables :
              currentAuthTables[i].name \in DeclaredTables(mutation.after)

\* C17: a file mutation (the splice of user-table fields, the appending of
\* auth tables) adds no field or table whose name the target file already
\* declares, adds every one it does not declare, and applied a second time
\* leaves the file as the first application left it.
C17_FileMutationIdempotent ==
    (mutation.kind # "none" /\ MutationHadTarget) =>
        /\ C17_NeverDuplicates
        /\ C17_AddsEveryMissing
        /\ mutation.previous = mutation.kind => mutation.after = mutation.before

\* C18: a merge leaves every field that existed in an application schema
\* with the definition it had, adds only fields whose names were absent, and
\* does not touch a schema whose table is neither new nor modified.
C18_MergeKeepsExistingFields ==
    lastPass.merged =>
        /\ Len(lastPass.after) >= Len(lastPass.before)
        /\ \A i \in DOMAIN lastPass.before :
              LET old == lastPass.before[i]
                  new == lastPass.after[i]
              IN  /\ new.name = old.name
                  /\ Len(new.fields) >= Len(old.fields)
                  /\ SubSeq(new.fields, 1, Len(old.fields)) = old.fields
                  /\ \A k \in DOMAIN new.fields :
                        k > Len(old.fields) => ~hasField(old, new.fields[k].name)
                  /\ ~InSeq(old.name, lastPass.changes.modifiedTables) => new = old

\* A merge into a schema that already declared, in its own way, a field the
\* auth user table also has.
C18_Witness ==
    /\ lastPass.merged
    /\ \E i \in DOMAIN lastPass.before :
          /\ InSeq(lastPass.before[i].name, lastPass.changes.modifiedTables)
          /\ \E k \in DOMAIN lastPass.before[i].fields :
                /\ lastPass.before[i].fields[k].name = FieldName
                /\ ~lastPass.before[i].fields[k].isAuthField
          /\ Len(lastPass.after[i].fields) > Len(lastPass.before[i].fields)

\* Array.isArray(value), and a non-array object (a plain object or a Date).
IsArrayArg(v) == v \in Refs /\ heap[v].kind = "array"
IsNonArrayObjectArg(v) == v \in Refs /\ heap[v].kind # "array"

\* C21: deepEqual returns false whenever one argument is an array and the
\* other is a non-array object, an empty object against an empty array
\* included.
C21_ArrayNeverEqualsObject ==
    (/\ equalCall.made
     /\ \/ IsArrayArg(argA) /\ IsNonArrayObjectArg(argB)
        \/ IsArrayArg(argB) /\ IsNonArrayObjectArg(argA))
        => ~equalCall.result

\* A parameter that is missing, or whose text parseInt reads no number from.
NotAValidNumber(param) == ~param.present \/ parseInt(param.text).nan

\* C22: for every URL, parsePagination returns a page that is a number of
\* at least 1 (1 when the parameter is missing or not a valid number) and a
\* limit that is a number of at most 100 (20 when the parameter is missing
\* or not a valid number).
C22_PageAndLimitClamped ==
    pagination.made =>
        /\ ~pagination.page.nan /\ pagination.page.n >= 1
        /\ NotAValidNumber(pageParam) => pagination.page = Number(1)
        /\ ~pagination.limit.nan /\ pagination.limit.n <= 100
        /\ NotAValidNumber(limitParam) => pagination.limit = Number(20)

\* The handlers whose discovery has finished and whose splice has run.
HasSpliced(i) == handlers[i].pc \in {"writing", "done"}

\* C23: when watcher events are handled with overlapping discoveries, then
\* once the handlers have finished, schemasRef.current holds the result of
\* the discovery that started last: an earlier discovery never overwrites
\* the result of a later one.
C23_LastStartedDiscoveryWins ==
    (/\ Len(handlers) >= 2
     /\ \E i \in DOMAIN handlers : handlers[i].concurrent
     /\ \A i \in DOMAIN handlers : handlers[i].pc = "done")
        => schemasRef.items = handlers[Len(handlers)].discovered

\* C24: on every change, add and unlink event, once the handler's discovery
\* has finished, schemasRef.current is the array it was before the event
\* and its contents are exactly the schemas that discovery returned.
C24_SpliceReplacesInPlace ==
    \A i \in DOMAIN handlers :
        HasSpliced(i) =>
            /\ handlers[i].after.ref = handlers[i].refAtEvent
            /\ handlers[i].after.items = handlers[i].discovered

\* A file was removed and the other one edited: both handlers have put
\* their discoveries into the array, which held two schemas before.
C24_Witness ==
    /\ Len(handlers) = 2
    /\ handlers[1].kind = "unlink" /\ handlers[1].pc = "done"
    /\ handlers[2].kind = "change" /\ handlers[2].pc = "done"
    /\ ~handlers[2].concurrent
    /\ Len(handlers[1].after.items) = 1
    /\ schemasRef.items = handlers[2].discovered
    /\ schemasRef.items # handlers[1].discovered

\* The names of the schemas a generated file holds the definitions of.
DefinedIn(output) == {output.schemas[k].name : k \in DOMAIN output.schemas}

\* C25: when a change to one schema file triggers incremental regeneration
\* and the artifact is configured in single-file format, the rewritten
\* combined file still holds the definitions of every discovered schema.
C25_CombinedFileKeepsAllSchemas ==
    \A i \in DOMAIN handlers :
        (/\ handlers[i].kind = "change"
         /\ handlers[i].pc = "done"
         /\ handlers[i].written.exists
         /\ outputFormat = "single-file")
            => \A k \in DOMAIN handlers[i].after.items :
                   handlers[i].after.items[k].name \in DefinedIn(handlers[i].written)

\* The columns the generated hooks assign.
HookColumns == {"password", "slug"}

\* C26: attribute values set by a `creating` or `updating` hook are part of
\* the row the INSERT or UPDATE that follows writes, so that after save()
\* the stored row and the model's attributes agree on those columns.
C26_HookValuesAreWritten ==
    [][((pc = "inserting" /\ pc' = "created") \/ (pc = "writing" /\ pc' = "updated"))
         => \A k \in HookColumns :
                /\ dbRow'[k] = attributes[k]
                /\ attributes'[k] = dbRow'[k]]_vars

\* The same, for a model class whose password is not hashed: only the slug
\* hook assigns anything.
C26_SlugHookAlone ==
    [][(~hashHook /\ pc = "inserting" /\ pc' = "created")
         => dbRow'["slug"] = attributes["slug"]]_vars

\* C27: after a whereAny(callback) call has completed, whether the callback
\* returned or threw, where is the original method again: every later
\* where() call on the builder adds its condition to the query.
C27_WhereRestoredAfterWhereAny ==
    \A i, j \in DOMAIN calls :
        (/\ i < j
         /\ calls[i].method = "whereAny"
         /\ calls[i].form \in {"callback", "callback-throws"}
         /\ calls[j].method = "where")
            => /\ calls[j].applied > 0
               /\ wheres[calls[j].applied] = whereCondition(calls[j].call)

\* C29: a relation declared with the static helper Model.belongsToMany can
\* be eager-loaded: loadRelations on a non-empty list of owning models sets
\* the relation on every owning model to a list, possibly empty, of related
\* instances.
C29_BelongsToManyIsLoaded ==
    (/\ terminal = "get"
     /\ requested = <<"tags">>
     /\ Relationships["tags"] = "belongsToMany"
     /\ Len(owners) > 0)
        => /\ ~failed
           /\ Len(got) = Len(owners)
           /\ \A i \in DOMAIN got : got[i].relations["tags"].state = "many"

\* The child had not closed when the timer ran: it was sent the kill signal
\* and the promise is rejected with the timeout error.
C30_KilledAndRejectedOnTimeout ==
    childAtTimeout = "running" =>
        /\ killSignals = 1
        /\ child \in {"killed", "closed"}
        /\ commandPromise = "rejected: timed out"

\* C30: if a subprocess started by runCommand has not closed within 30
\* seconds of being started, the child is killed and the promise runCommand
\* returned is rejected with a timeout error; the promise is never left
\* pending.
C30_TimeoutSettlesPromise ==
    /\ [](C30_KilledAndRejectedOnTimeout)
    /\ [](commandPromise = "pending" => elapsed <= CommandTimeout /\ commandPc = "started")
    /\ (commandPromise = "pending") ~> (commandPromise # "pending")

\* The child ran for the whole 30 seconds, was killed by the timer and has
\* closed since.
C30_Witness ==
    /\ childAtTimeout = "running"
    /\ elapsed = CommandTimeout
    /\ child = "closed"
    /\ killSignals = 1
    /\ commandPromise = "rejected: timed out"

====
